---- MODULE Spec2Model ----
(***************************************************************************)
(* Wallet exposure ledger and market settlement of the betting backend     *)
(* (src/src/modules/bet/bet.service.js, first variant, with                *)
(* src/src/utils/transaction.helper.js and the Wallet / Bet /              *)
(* WalletTransaction schemas).                                             *)
(*                                                                         *)
(* Amounts are JavaScript Numbers in the code.  Here an amount is an       *)
(* integer count of thousandths of the currency unit, so one minor unit    *)
(* (paisa, a hundredth) is 10 and amounts below a minor unit exist.        *)
(* Odds are held in hundredths (470 is 4.70), rates as plain numbers       *)
(* (95), line values in tenths (1605 is 160.5).  A missing / null / 0      *)
(* number is 0: the code only tests such fields for falsiness.             *)
(***************************************************************************)
EXTENDS Integers, Sequences, FiniteSets, TLC

VARIABLES
    wallets,               \* Wallet collection: user -> wallet document
    ledger,                \* WalletTransaction collection, in insertion order
    bets,                  \* Bet collection, in insertion order
    applied,               \* history: bet index -> number of settlement wallet effects persisted
    eventDataCache,        \* snapshot cache of the feed (cricketevent.service.js)
    transactionSupported,  \* transaction.helper.js module state ("null", TRUE, FALSE)
    transactionCheckLogged, \* transaction.helper.js module state: the first check was logged
    notices,               \* history: number of standalone-mode notices written to the log
    procs,                 \* calls in flight: call id -> position and locals
    last,                  \* history: the last completed call and the store before it
    calls                  \* history: number of calls started

vars == <<wallets, ledger, bets, applied, eventDataCache,
          transactionSupported, transactionCheckLogged, notices, procs, last, calls>>

----------------------------------------------------------------------------
(* Bounds *)

MaxBets == 2
MaxCalls == 5

Users == {"u1", "u2"}

----------------------------------------------------------------------------
(* Decimal helpers: bet.service.js 22-24 and the schema getters *)

\* Math.round(x / d) for an integer x and d > 0: halves round towards +infinity
RoundDiv(x, d) == (2 * x + d) \div (2 * d)

\* toInt = Math.round(amount * 100): amount in thousandths -> whole paise
toInt(amount) == RoundDiv(amount, 10)

\* fromInt = Math.round(val) / 100: whole paise -> amount in thousandths
fromInt(val) == val * 10

\* Wallet schema getter on balance / lockedBalance: Math.round(value * 100) / 100
WalletGetter(value) == fromInt(toInt(value))

Abs(x) == IF x < 0 THEN -x ELSE x

----------------------------------------------------------------------------
(* Bet model constants *)

MATCH_ODDS == "match_odds"
BOOKMAKERS_FANCY == "bookmakers_fancy"
LINE_MARKET == "line_market"
METER_MARKET == "meter_market"
KADO_MARKET == "kado_market"

MARKET_TYPES == {MATCH_ODDS, BOOKMAKERS_FANCY, LINE_MARKET, METER_MARKET, KADO_MARKET}

BetTypeEnum == {"back", "lay", "yes", "no", "over", "under"}

SportEnum == {"cricket", "soccer", "tennis"}

\* error messages thrown by the code
ErrNone == "none"
ErrInsufficient == "Insufficient wallet balance to lock exposure"
ErrInconsistent == "Locked exposure inconsistent for settlement"
ErrValueChange == "value change try again"
ErrValidation == "ValidationError"
ErrWriteConflict == "WriteConflict"

----------------------------------------------------------------------------
(* calculateExposure: bet.service.js 46-77.  Returns [err, value]. *)

\* a lay liability computed from the full odds instead of odds - 1
OddsProfitFullOdds(odds, stake) == (odds * stake) \div 100

\* (odds - 1) * stake with odds in hundredths
OddsProfit(odds, stake) == ((odds - 100) * stake) \div 100

calculateExposure(marketType, betType, stake, odds, rate) ==
    CASE marketType = MATCH_ODDS ->
            IF odds = 0 THEN [err |-> "Odds required for MATCH_ODDS", value |-> 0]
            ELSE IF betType = "back" THEN [err |-> ErrNone, value |-> stake]
            ELSE IF betType = "lay" THEN [err |-> ErrNone, value |-> OddsProfit(odds, stake)]
            ELSE [err |-> "Invalid betType for MATCH_ODDS", value |-> 0]
      [] marketType = BOOKMAKERS_FANCY ->
            IF rate = 0 THEN [err |-> "Rate required for BOOKMAKERS_FANCY", value |-> 0]
            ELSE [err |-> ErrNone, value |-> stake]
      [] marketType \in {LINE_MARKET, METER_MARKET, KADO_MARKET} ->
            [err |-> ErrNone, value |-> stake]
      [] OTHER -> [err |-> "Unsupported market type", value |-> 0]

----------------------------------------------------------------------------
(* Feed snapshots held by eventDataCache (cricketevent.service.js 5-61).   *)
(* A snapshot is the provider's array of markets of one event.             *)

Price(otype, odds) == [otype |-> otype, odds |-> odds]

Section(sid, nat, gstatus, odds) == [sid |-> sid, nat |-> nat, gstatus |-> gstatus, odds |-> odds]

Market(mid, status, mname, section) == [mid |-> mid, status |-> status, mname |-> mname, section |-> section]

LadderA == <<Price("back", 200), Price("back", 190), Price("lay", 300), Price("lay", 310)>>

LadderB == <<Price("back", 300), Price("lay", 300)>>

LadderFancy == <<Price("back", 90), Price("lay", 100)>>

FancyMarket == Market("m2", "OPEN", "Fancy", <<Section("f1", "Runs", "", LadderFancy)>>)

LineMarket == Market("m3", "OPEN", "Line", <<>>)

MarketsLive ==
    << Market("m1", "OPEN", "MATCH_ODDS",
              <<Section("s1", "A", "ACTIVE", LadderA), Section("s2", "B", "ACTIVE", LadderB)>>),
       FancyMarket, LineMarket >>

FeedResponses == {MarketsLive}

EventIds == {"e1"}

NoData == [found |-> FALSE, data |-> <<>>]

\* getEventDataFromCache: bet.service.js 30-41 with getLatestCricketEventData
getEventDataFromCache(cache, sport, eventId) ==
    IF sport \in DOMAIN cache /\ eventId \in DOMAIN cache[sport]
    THEN [found |-> TRUE, data |-> cache[sport][eventId]]
    ELSE NoData

\* Array.prototype.find: index of the first element satisfying P, 0 when none
FindFirst(seq, P(_)) ==
    IF \E i \in 1..Len(seq) : P(seq[i])
    THEN CHOOSE i \in 1..Len(seq) : P(seq[i]) /\ \A j \in 1..(i-1) : ~P(seq[j])
    ELSE 0

SetMax(S) == CHOOSE x \in S : \A y \in S : y <= x

SetMin(S) == CHOOSE x \in S : \A y \in S : x <= y

\* sections.find(sid) || sections.find(nat): bet.service.js 304-306, 351-353
MatchSection(sections, selectionId, selectionName) ==
    LET bySid == FindFirst(sections, LAMBDA s : s.sid = selectionId)
        byNat == FindFirst(sections, LAMBDA s : s.nat = selectionName)
    IN IF bySid # 0 THEN bySid ELSE byNat

\* a ladder check that accepts whatever price was submitted
LadderCheckAccepts(ladder, priceType, submitted) == ErrNone

\* a ladder check that accepts any quoted row of the requested side
LadderCheckAnyRow(ladder, priceType, submitted) ==
    LET prices == {ladder[i].odds : i \in {j \in 1..Len(ladder) : ladder[j].otype = priceType}}
    IN IF submitted \notin prices THEN ErrValueChange ELSE ErrNone

\* the ladder check shared by both priced market types: bet.service.js 318-346, 365-393
LadderCheck(ladder, priceType, submitted) ==
    LET prices == {ladder[i].odds : i \in {j \in 1..Len(ladder) : ladder[j].otype = priceType}}
    IN IF prices = {} THEN ErrValueChange
       ELSE LET current == IF priceType = "back" THEN SetMax(prices) ELSE SetMin(prices)
            IN IF submitted # current THEN ErrValueChange ELSE ErrNone

\* placeBet's synchronous validation: bet.service.js 255-394.  Returns the error thrown, or ErrNone.
ValidatePlacement(cache, payload) ==
    IF payload.sport \notin SportEnum THEN "Invalid or missing sport"
    ELSE
    LET eventJsonStamp == getEventDataFromCache(cache, payload.sport, payload.eventId)
    IN IF ~eventJsonStamp.found THEN "Event data not available"
    ELSE
    LET marketsArray == eventJsonStamp.data
        mi == FindFirst(marketsArray, LAMBDA m : m.mid = payload.marketId)
    IN IF mi = 0 THEN ErrValueChange
    ELSE
    LET matchedMarket == marketsArray[mi]
        sections == matchedMarket.section
        si == MatchSection(sections, payload.selectionId, payload.selectionName)
    IN IF matchedMarket.status # "OPEN" THEN "Market is not open"
       ELSE IF matchedMarket.mname = "" THEN ErrValueChange
       ELSE IF payload.marketType = MATCH_ODDS THEN
            IF si = 0 THEN ErrValueChange
            ELSE IF sections[si].gstatus # "ACTIVE" THEN ErrValueChange
            ELSE IF payload.betType \notin {"back", "lay"} THEN "Invalid betType for MATCH_ODDS"
            ELSE LadderCheck(sections[si].odds, payload.betType, payload.odds)
       ELSE IF payload.marketType = BOOKMAKERS_FANCY THEN
            IF si = 0 THEN ErrValueChange
            ELSE IF sections[si].gstatus = "SUSPENDED" THEN ErrValueChange
            ELSE IF payload.betType \notin {"yes", "no"} THEN "Invalid betType for BOOKMAKERS_FANCY"
            ELSE LadderCheck(sections[si].odds,
                             IF payload.betType = "yes" THEN "back" ELSE "lay", payload.rate)
       ELSE ErrNone

----------------------------------------------------------------------------
(* The store and its documents *)

\* Wallet schema: unnamed/part_004 3-64
WalletDoc(balance, lockedBalance, isActive, isLocked) ==
    [exists |-> TRUE, balance |-> balance, lockedBalance |-> lockedBalance,
     isActive |-> isActive, isLocked |-> isLocked]

\* walletSchema.methods.isAvailable: unnamed/part_004 88-90
\* an availability check that looks at the active flag only
isAvailableIgnoresLock(w) == w.isActive

isAvailable(w) == w.isActive /\ ~w.isLocked

\* a Wallet schema without the min validators
WalletValidNoMin(doc, mod) == TRUE

\* min validators of the Wallet schema, run by save() on the modified paths: unnamed/part_004 11-30
WalletValid(doc, mod) == \A f \in mod : doc[f] >= 0

\* validators of the Bet schema run by Bet.create: models/Bet.js 49-163
BetValid(payload, exposure) ==
    /\ payload.sport \in SportEnum
    /\ payload.marketType \in MARKET_TYPES
    /\ payload.selectionId # "" /\ payload.selectionName # ""
    /\ payload.betType \in BetTypeEnum
    /\ payload.odds >= 0 /\ payload.rate >= 0 /\ payload.lineValue >= 0
    /\ payload.stake >= 0 /\ exposure >= 0

\* the document written by Bet.create in placeBet: bet.service.js 412-435
NewBet(userId, payload, exposure) ==
    [userId |-> userId, eventId |-> payload.eventId, marketId |-> payload.marketId,
     marketType |-> payload.marketType, selectionId |-> payload.selectionId,
     betType |-> payload.betType, odds |-> payload.odds, rate |-> payload.rate,
     lineValue |-> payload.lineValue, stake |-> payload.stake, exposure |-> exposure,
     status |-> "open", settlementResult |-> "null", settledAt |-> "null"]

\* one WalletTransaction document: bet.service.js 115-131, 177-193, 201-221
LedgerTx(user, transactionType, amount, balanceBefore, balanceAfter, type) ==
    [user |-> user, transactionType |-> transactionType, amount |-> amount,
     balanceBefore |-> balanceBefore, balanceAfter |-> balanceAfter, type |-> type]

EmptyDb == [wallets |-> <<>>, ledger |-> <<>>, bets |-> <<>>, applied |-> <<>>]

NoDoc == [exists |-> FALSE, balance |-> 0, lockedBalance |-> 0, isActive |-> FALSE, isLocked |-> FALSE]

NoResult == [netWinAmount |-> 0, settlementResult |-> "null"]

WalletKey(u) == <<"wallet", u>>

BetKey(i) == <<"bet", i>>

----------------------------------------------------------------------------
(* A call in flight: its position (pc), its session and its locals *)

NewProc(kind, user, args) ==
    [kind |-> kind, user |-> user, args |-> args, pc |-> "check", err |-> ErrNone,
     session |-> FALSE, hasSnap |-> FALSE, snap |-> EmptyDb, baseLedger |-> 0, baseBets |-> 0,
     stale |-> {}, wrote |-> {},
     settledNow |-> {}, startedAfter |-> {}, at |-> "none",
     exposure |-> 0, wuser |-> user, doc |-> NoDoc, mod |-> {},
     balanceBefore |-> 0, balanceAfter |-> 0, netWinInt |-> 0,
     result |-> NoResult, txs |-> <<>>, list |-> <<>>, i |-> 0]

\* the locals are dropped when the call returns
Finished(p, err) ==
    [NewProc(p.kind, p.user, p.args) EXCEPT !.pc = "done", !.err = err, !.session = p.session,
                                            !.startedAfter = p.startedAfter]

Res(db, p) == [db |-> db, p |-> p]

\* a throw inside fn: withTransaction's catch aborts when there is a session (transaction.helper.js 60-62),
\* otherwise the rejection goes straight to the caller (transaction.helper.js 70)
Throw(db, p, msg) ==
    IF p.session THEN Res(db, [p EXCEPT !.pc = "abort", !.err = msg])
    ELSE Res(db, Finished(p, msg))

\* fn returned: commitTransaction with a session (transaction.helper.js 57-59), else return
Return(db, p) ==
    IF p.session THEN Res(db, [p EXCEPT !.pc = "commit"])
    ELSE Res(db, Finished(p, ErrNone))

\* what a query of this call reads: its transaction's snapshot and own writes, or the store
Target(db, p) == IF p.session THEN p.snap ELSE db

\* the first operation of a transaction fixes its snapshot
WithSnapshot(db, p) ==
    IF p.session /\ ~p.hasSnap
    THEN [p EXCEPT !.snap = db, !.hasSnap = TRUE,
                   !.baseLedger = Len(db.ledger), !.baseBets = Len(db.bets)]
    ELSE p

\* a write made by this call: into its transaction, or into the store
Store(db, p, d2) == IF p.session THEN Res(db, [p EXCEPT !.snap = d2]) ELSE Res(d2, p)

\* a storage layer that never reports a write conflict
ConflictNever(p, key, locked) == FALSE

\* a transaction's write to a document changed since its snapshot, or being written by
\* another open transaction, fails with a write conflict
Conflict(p, key, locked) == p.session /\ (key \in p.stale \/ key \in locked)

\* wallet.save(sessionOpts(session)): validation, then $set of the modified paths
\* (lastTransactionAt is always modified, so an update is always sent)
WalletSave(db, p, locked, next) ==
    IF ~WalletValid(p.doc, p.mod) THEN Throw(db, p, ErrValidation)
    ELSE IF Conflict(p, WalletKey(p.wuser), locked) THEN Throw(db, p, ErrWriteConflict)
    ELSE LET d == Target(db, p)
             old == d.wallets[p.wuser]
             new == [f \in DOMAIN old |-> IF f \in p.mod THEN p.doc[f] ELSE old[f]]
             d2 == [d EXCEPT !.wallets[p.wuser] = new]
             p2 == [p EXCEPT !.mod = {}, !.wrote = @ \cup {WalletKey(p.wuser)}, !.pc = next]
         IN Store(db, p2, d2)

\* the paths of the loaded wallet document that an assignment marks modified
Modified(loaded, doc) == {f \in {"balance", "lockedBalance"} : doc[f] # loaded[f]}

----------------------------------------------------------------------------
(* placeBet: bet.service.js 238-439, one operator per awaited step *)

\* a placeBet that goes to the ledger without validating against the snapshot
PlaceBeginUnvalidated(db, p, cache) ==
    LET ce == calculateExposure(p.args.marketType, p.args.betType, p.args.stake,
                                p.args.odds, p.args.rate)
    IN IF ce.err # ErrNone THEN Throw(db, p, ce.err)
       ELSE IF ce.value <= 0 THEN Throw(db, p, "Exposure must be positive")
       ELSE Res(db, [p EXCEPT !.exposure = ce.value, !.wuser = p.user, !.pc = "lock_find"])

\* 240-402 and lockExposure 83-85: validation, exposure, up to the wallet query being issued
PlaceBegin(db, p, cache) ==
    LET v == ValidatePlacement(cache, p.args)
        ce == calculateExposure(p.args.marketType, p.args.betType, p.args.stake,
                                p.args.odds, p.args.rate)
    IN IF v # ErrNone THEN Throw(db, p, v)
       ELSE IF ce.err # ErrNone THEN Throw(db, p, ce.err)
       ELSE IF ce.value <= 0 THEN Throw(db, p, "Exposure must be positive")
       ELSE Res(db, [p EXCEPT !.exposure = ce.value, !.wuser = p.user, !.pc = "lock_find"])

\* lockExposure with the funds check written as <=
LockFindStrict(db, p0) ==
    LET p == WithSnapshot(db, p0)
        wallet == Target(db, p).wallets[p.user]
        availableInt == toInt(WalletGetter(wallet.balance))
        lockedInt == toInt(WalletGetter(wallet.lockedBalance))
        exposureInt == toInt(p.exposure)
        balanceBefore == WalletGetter(wallet.balance)
        balanceAfter == fromInt(availableInt - exposureInt)
        lockedAfter == fromInt(lockedInt + exposureInt)
        doc == [wallet EXCEPT !.balance = balanceAfter, !.lockedBalance = lockedAfter]
    IN IF ~wallet.exists THEN Throw(db, p, "Wallet not found")
       ELSE IF ~isAvailable(wallet) THEN Throw(db, p, "Wallet is locked or inactive")
       ELSE IF availableInt <= exposureInt THEN Throw(db, p, ErrInsufficient)
       ELSE Res(db, [p EXCEPT !.doc = doc, !.mod = Modified(wallet, doc),
                              !.balanceBefore = balanceBefore, !.balanceAfter = balanceAfter,
                              !.pc = "lock_save"])

\* lockExposure 87-110: the wallet is read, checked and changed in memory
LockFind(db, p0) ==
    LET p == WithSnapshot(db, p0)
        wallet == Target(db, p).wallets[p.user]
        availableInt == toInt(WalletGetter(wallet.balance))
        lockedInt == toInt(WalletGetter(wallet.lockedBalance))
        exposureInt == toInt(p.exposure)
        balanceBefore == WalletGetter(wallet.balance)
        balanceAfter == fromInt(availableInt - exposureInt)
        lockedAfter == fromInt(lockedInt + exposureInt)
        doc == [wallet EXCEPT !.balance = balanceAfter, !.lockedBalance = lockedAfter]
    IN IF ~wallet.exists THEN Throw(db, p, "Wallet not found")
       ELSE IF ~isAvailable(wallet) THEN Throw(db, p, "Wallet is locked or inactive")
       ELSE IF availableInt < exposureInt THEN Throw(db, p, ErrInsufficient)
       ELSE Res(db, [p EXCEPT !.doc = doc, !.mod = Modified(wallet, doc),
                              !.balanceBefore = balanceBefore, !.balanceAfter = balanceAfter,
                              !.pc = "lock_save"])

\* a debit record that repeats the prior balance as balance-after
LockTxStaleBalance(db, p) ==
    LET d == Target(db, p)
        tx == LedgerTx(p.user, "debit", p.exposure, p.balanceBefore, p.balanceBefore,
                       "bet_exposure_lock")
    IN Store(db, [p EXCEPT !.pc = "bet_create"], [d EXCEPT !.ledger = Append(@, tx)])

\* a lockExposure that writes no debit record
LockTxNoRecord(db, p) == Store(db, [p EXCEPT !.pc = "bet_create"], Target(db, p))

\* a lockExposure that writes its debit record over the latest record of the ledger
LockTxOverwrites(db, p) ==
    LET d == Target(db, p)
        tx == LedgerTx(p.user, "debit", p.exposure, p.balanceBefore, p.balanceAfter,
                       "bet_exposure_lock")
    IN Store(db, [p EXCEPT !.pc = "bet_create"],
             [d EXCEPT !.ledger = IF @ = <<>> THEN <<tx>> ELSE [@ EXCEPT ![Len(@)] = tx]])

\* lockExposure 113-134: the debit record
LockTx(db, p) ==
    LET d == Target(db, p)
        tx == LedgerTx(p.user, "debit", p.exposure, p.balanceBefore, p.balanceAfter,
                       "bet_exposure_lock")
    IN Store(db, [p EXCEPT !.pc = "bet_create"], [d EXCEPT !.ledger = Append(@, tx)])

\* placeBet 412-437: Bet.create, then the body returns
BetCreate(db, p) ==
    IF ~BetValid(p.args, p.exposure) THEN Throw(db, p, ErrValidation)
    ELSE LET d == Target(db, p)
             d2 == [d EXCEPT !.bets = Append(@, NewBet(p.user, p.args, p.exposure)),
                             !.applied = Append(@, 0)]
             r == Store(db, p, d2)
         IN Return(r.db, r.p)

----------------------------------------------------------------------------
(* settleMarket: bet.service.js 529-812 *)

\* a fixed-odds settlement that pays a winning back bet the full odds
MatchOddsResultFullOdds(bet, winnerSelectionId) ==
    LET isWinner == bet.selectionId = winnerSelectionId
    IN IF bet.betType = "back" THEN
            IF isWinner
            THEN [netWinAmount |-> (bet.odds * bet.stake) \div 100, settlementResult |-> "won"]
            ELSE [netWinAmount |-> -bet.exposure, settlementResult |-> "lost"]
       ELSE IF isWinner
            THEN [netWinAmount |-> -bet.exposure, settlementResult |-> "lost"]
            ELSE [netWinAmount |-> bet.stake, settlementResult |-> "won"]

\* the net result and settlementResult each helper computes for one loaded bet
\* settleMatchOdds 540-563
MatchOddsResult(bet, winnerSelectionId) ==
    LET isWinner == bet.selectionId = winnerSelectionId
    IN IF bet.betType = "back" THEN
            IF isWinner
            THEN [netWinAmount |-> OddsProfit(bet.odds, bet.stake), settlementResult |-> "won"]
            ELSE [netWinAmount |-> -bet.exposure, settlementResult |-> "lost"]
       ELSE IF bet.betType = "lay" THEN
            IF isWinner
            THEN [netWinAmount |-> -bet.exposure, settlementResult |-> "lost"]
            ELSE [netWinAmount |-> bet.stake, settlementResult |-> "won"]
       ELSE [netWinAmount |-> 0, settlementResult |-> bet.settlementResult]

\* a session settlement that treats a missing outcome as a loss
FancyResultMissingLoses(bet, resultMap) ==
    [netWinAmount |-> -bet.exposure, settlementResult |-> "lost"]

\* a session settlement that pays a winning no bet like a winning yes bet
FancyResultNoPaysRate(bet, resultMap) ==
    IF bet.selectionId \notin DOMAIN resultMap
    THEN [netWinAmount |-> 0, settlementResult |-> "void"]
    ELSE IF resultMap[bet.selectionId] = bet.betType
         THEN [netWinAmount |-> (bet.stake * bet.rate) \div 100, settlementResult |-> "won"]
         ELSE [netWinAmount |-> -bet.exposure, settlementResult |-> "lost"]

\* settleBookmakersFancy 592-632; resultMap is a function from selection ids to "yes" / "no"
FancyResult(bet, resultMap) ==
    IF bet.selectionId \notin DOMAIN resultMap
    THEN [netWinAmount |-> 0, settlementResult |-> "void"]
    ELSE LET outcome == resultMap[bet.selectionId]
         IN IF bet.betType = "yes" THEN
                IF outcome = "yes"
                THEN [netWinAmount |-> (bet.stake * bet.rate) \div 100, settlementResult |-> "won"]
                ELSE [netWinAmount |-> -bet.exposure, settlementResult |-> "lost"]
            ELSE IF bet.betType = "no" THEN
                IF outcome = "no"
                THEN [netWinAmount |-> 0, settlementResult |-> "won"]
                ELSE [netWinAmount |-> -bet.exposure, settlementResult |-> "lost"]
            ELSE [netWinAmount |-> 0, settlementResult |-> bet.settlementResult]

\* a line settlement in which an over bet also wins when the final value equals the line
LineResultPushWins(bet, finalValue) ==
    LET isWinner == IF bet.betType = "over" THEN finalValue >= bet.lineValue
                    ELSE IF bet.betType = "under" THEN finalValue < bet.lineValue
                    ELSE FALSE
    IN IF isWinner THEN [netWinAmount |-> bet.stake, settlementResult |-> "won"]
       ELSE [netWinAmount |-> -bet.exposure, settlementResult |-> "lost"]

\* settleLineMarket 660-681
LineResult(bet, finalValue) ==
    LET isWinner == IF bet.betType = "over" THEN finalValue > bet.lineValue
                    ELSE IF bet.betType = "under" THEN finalValue < bet.lineValue
                    ELSE FALSE
    IN IF isWinner THEN [netWinAmount |-> bet.stake, settlementResult |-> "won"]
       ELSE [netWinAmount |-> -bet.exposure, settlementResult |-> "lost"]

\* settleMeterMarket 698-714
MeterResult(bet, finalValue) ==
    IF finalValue >= bet.lineValue
    THEN [netWinAmount |-> bet.stake, settlementResult |-> "won"]
    ELSE [netWinAmount |-> -bet.exposure, settlementResult |-> "lost"]

\* settleKadoMarket 731-749
KadoResult(bet, isWinForYes) ==
    LET isWinner == IF isWinForYes THEN bet.betType = "yes" ELSE bet.betType = "no"
        multiplier == IF bet.rate # 0 THEN bet.rate ELSE 2
    IN IF isWinner THEN [netWinAmount |-> bet.stake * (multiplier - 1), settlementResult |-> "won"]
       ELSE [netWinAmount |-> -bet.exposure, settlementResult |-> "lost"]

\* the helper the switch of settleMarket selects: 762-810
BetResult(bet, payload) ==
    CASE payload.marketType = MATCH_ODDS -> MatchOddsResult(bet, payload.winnerSelectionId)
      [] payload.marketType = BOOKMAKERS_FANCY -> FancyResult(bet, payload.resultMap)
      [] payload.marketType = LINE_MARKET -> LineResult(bet, payload.finalValue)
      [] payload.marketType = METER_MARKET -> MeterResult(bet, payload.finalValue)
      [] payload.marketType = KADO_MARKET -> KadoResult(bet, payload.isWinForYes)

\* a Bet.find without the status filter
RECURSIVE OpenBetsAnyStatus(_, _, _)
OpenBetsAnyStatus(betSeq, payload, from) ==
    IF from > Len(betSeq) THEN <<>>
    ELSE LET b == betSeq[from]
             rest == OpenBetsAnyStatus(betSeq, payload, from + 1)
         IN IF /\ b.marketId = payload.marketId /\ b.eventId = payload.eventId
               /\ b.marketType = payload.marketType
            THEN <<[id |-> from, bet |-> b]>> \o rest
            ELSE rest

\* a Bet.find that loads the open bets of every market of the event
RECURSIVE OpenBetsAnyMarket(_, _, _)
OpenBetsAnyMarket(betSeq, payload, from) ==
    IF from > Len(betSeq) THEN <<>>
    ELSE LET b == betSeq[from]
             rest == OpenBetsAnyMarket(betSeq, payload, from + 1)
         IN IF b.eventId = payload.eventId /\ b.status = "open"
            THEN <<[id |-> from, bet |-> b]>> \o rest
            ELSE rest

\* Bet.find({marketId, eventId, marketType, status: OPEN}): the matching indices, in order
RECURSIVE OpenBets(_, _, _)
OpenBets(betSeq, payload, from) ==
    IF from > Len(betSeq) THEN <<>>
    ELSE LET b == betSeq[from]
             rest == OpenBets(betSeq, payload, from + 1)
         IN IF /\ b.marketId = payload.marketId /\ b.eventId = payload.eventId
               /\ b.marketType = payload.marketType /\ b.status = "open"
            THEN <<[id |-> from, bet |-> b]>> \o rest
            ELSE rest

\* settleMarket 760-810: the switch; an unknown market type throws
SettleBegin(db, p) ==
    IF p.args.marketType \notin MARKET_TYPES
    THEN Throw(db, p, "Unsupported market type for settlement")
    ELSE Res(db, [p EXCEPT !.pc = "find"])

\* the head of each helper's for loop: the next loaded bet's result, or the body returns
NextBet(db, p) ==
    IF p.i + 1 > Len(p.list) THEN Return(db, p)
    ELSE LET bet == p.list[p.i + 1].bet
         IN Res(db, [p EXCEPT !.i = p.i + 1, !.result = BetResult(bet, p.args),
                              !.exposure = bet.exposure, !.wuser = bet.userId,
                              !.pc = "se_find"])

\* the Bet.find of the helper: 530-537 and its four copies
SettleFind(db, p0) ==
    LET p == WithSnapshot(db, p0)
        found == OpenBets(Target(db, p).bets, p.args, 1)
    IN NextBet(db, [p EXCEPT !.list = found, !.i = 0])

\* a settleExposure that leaves the locked balance as it was
SettleExposureFindKeepsLocked(db, p) ==
    LET wallet == Target(db, p).wallets[p.wuser]
        availableInt == toInt(WalletGetter(wallet.balance))
        lockedInt == toInt(WalletGetter(wallet.lockedBalance))
        exposureInt == toInt(p.exposure)
        netWinInt == toInt(p.result.netWinAmount)
        balanceBefore == WalletGetter(wallet.balance)
        balanceAfter == fromInt(availableInt + exposureInt + netWinInt)
        doc == [wallet EXCEPT !.balance = balanceAfter]
    IN IF ~wallet.exists THEN Throw(db, p, "Wallet not found")
       ELSE IF lockedInt < exposureInt THEN Throw(db, p, ErrInconsistent)
       ELSE Res(db, [p EXCEPT !.doc = doc, !.mod = Modified(wallet, doc),
                              !.balanceBefore = balanceBefore, !.balanceAfter = balanceAfter,
                              !.netWinInt = netWinInt, !.pc = "se_save1"])

\* a settleExposure that clamps the locked balance instead of rejecting an inconsistency
SettleExposureFindClamps(db, p) ==
    LET wallet == Target(db, p).wallets[p.wuser]
        availableInt == toInt(WalletGetter(wallet.balance))
        lockedInt == toInt(WalletGetter(wallet.lockedBalance))
        exposureInt == toInt(p.exposure)
        netWinInt == toInt(p.result.netWinAmount)
        balanceBefore == WalletGetter(wallet.balance)
        balanceAfter == fromInt(availableInt + exposureInt + netWinInt)
        lockedAfter == IF lockedInt < exposureInt THEN 0 ELSE fromInt(lockedInt - exposureInt)
        doc == [wallet EXCEPT !.balance = balanceAfter, !.lockedBalance = lockedAfter]
    IN IF ~wallet.exists THEN Throw(db, p, "Wallet not found")
       ELSE Res(db, [p EXCEPT !.doc = doc, !.mod = Modified(wallet, doc),
                              !.balanceBefore = balanceBefore, !.balanceAfter = balanceAfter,
                              !.netWinInt = netWinInt, !.pc = "se_save1"])

\* a settleExposure that refuses a wallet that is locked or inactive, as lockExposure does
SettleExposureFindChecksFlags(db, p) ==
    LET wallet == Target(db, p).wallets[p.wuser]
        availableInt == toInt(WalletGetter(wallet.balance))
        lockedInt == toInt(WalletGetter(wallet.lockedBalance))
        exposureInt == toInt(p.exposure)
        netWinInt == toInt(p.result.netWinAmount)
        balanceBefore == WalletGetter(wallet.balance)
        balanceAfter == fromInt(availableInt + exposureInt + netWinInt)
        lockedAfter == fromInt(lockedInt - exposureInt)
        doc == [wallet EXCEPT !.balance = balanceAfter, !.lockedBalance = lockedAfter]
    IN IF ~wallet.exists THEN Throw(db, p, "Wallet not found")
       ELSE IF ~isAvailable(wallet) THEN Throw(db, p, "Wallet is locked or inactive")
       ELSE IF lockedInt < exposureInt THEN Throw(db, p, ErrInconsistent)
       ELSE Res(db, [p EXCEPT !.doc = doc, !.mod = Modified(wallet, doc),
                              !.balanceBefore = balanceBefore, !.balanceAfter = balanceAfter,
                              !.netWinInt = netWinInt, !.pc = "se_save1"])

\* settleExposure 150-171: the wallet is read, checked and changed in memory
SettleExposureFind(db, p) ==
    LET wallet == Target(db, p).wallets[p.wuser]
        availableInt == toInt(WalletGetter(wallet.balance))
        lockedInt == toInt(WalletGetter(wallet.lockedBalance))
        exposureInt == toInt(p.exposure)
        netWinInt == toInt(p.result.netWinAmount)
        balanceBefore == WalletGetter(wallet.balance)
        balanceAfter == fromInt(availableInt + exposureInt + netWinInt)
        lockedAfter == fromInt(lockedInt - exposureInt)
        doc == [wallet EXCEPT !.balance = balanceAfter, !.lockedBalance = lockedAfter]
    IN IF ~wallet.exists THEN Throw(db, p, "Wallet not found")
       ELSE IF lockedInt < exposureInt THEN Throw(db, p, ErrInconsistent)
       ELSE Res(db, [p EXCEPT !.doc = doc, !.mod = Modified(wallet, doc),
                              !.balanceBefore = balanceBefore, !.balanceAfter = balanceAfter,
                              !.netWinInt = netWinInt, !.pc = "se_save1"])

\* settleExposure 172-226: after the first save, the records are built and, for a non-zero
\* net result, the balance is set again from the balance just saved
SettleExposureSave1(db, p, locked) ==
    LET r == WalletSave(db, p, locked, "se_tx")
        q == r.p
        id == p.list[p.i].id
        unlock == LedgerTx(p.wuser, "credit", p.exposure, p.balanceBefore, p.balanceAfter,
                           "bet_exposure_unlock")
        balanceBefore2 == p.balanceAfter
        balanceAfter2 == fromInt(toInt(balanceBefore2) + p.netWinInt)
        isWin == p.netWinInt > 0
        net == LedgerTx(p.wuser, IF isWin THEN "credit" ELSE "debit",
                        Abs(p.result.netWinAmount), balanceBefore2, balanceAfter2,
                        "bet_settlement")
        d == Target(r.db, q)
        d2 == [d EXCEPT !.applied[id] = @ + 1]
        q2 == [q EXCEPT !.settledNow = @ \cup {id}]
    IN IF q.pc # "se_tx" THEN r
       ELSE IF p.netWinInt # 0
       THEN Store(r.db, [q2 EXCEPT !.txs = <<unlock, net>>, !.doc.balance = balanceAfter2,
                                   !.mod = {"balance"}, !.balanceAfter = balanceAfter2,
                                   !.pc = "se_save2"], d2)
       ELSE Store(r.db, [q2 EXCEPT !.txs = <<unlock>>], d2)

\* settleExposure 228-230: WalletTransaction.create(txs)
SettleExposureTx(db, p) ==
    LET d == Target(db, p)
    IN Store(db, [p EXCEPT !.txs = <<>>, !.pc = "bet_save"], [d EXCEPT !.ledger = @ \o p.txs])

\* a bet.save() that stores the status without the settlement result
BetSaveStatusOnly(db, p, locked) ==
    LET id == p.list[p.i].id
        d == Target(db, p)
        d2 == [d EXCEPT !.bets[id].status = "settled", !.bets[id].settledAt = "set"]
        r == Store(db, [p EXCEPT !.wrote = @ \cup {BetKey(id)}], d2)
    IN IF Conflict(p, BetKey(id), locked) THEN Throw(db, p, ErrWriteConflict)
       ELSE NextBet(r.db, r.p)

\* bet.save() after settleExposure: 574-576 and its copies, then the loop goes on
BetSave(db, p, locked) ==
    LET id == p.list[p.i].id
        d == Target(db, p)
        d2 == [d EXCEPT !.bets[id].status = "settled",
                        !.bets[id].settlementResult = p.result.settlementResult,
                        !.bets[id].settledAt = "set"]
        r == Store(db, [p EXCEPT !.wrote = @ \cup {BetKey(id)}], d2)
    IN IF Conflict(p, BetKey(id), locked) THEN Throw(db, p, ErrWriteConflict)
       ELSE NextBet(r.db, r.p)

----------------------------------------------------------------------------
(* withTransaction: transaction.helper.js 3-72 *)

\* checkTransactionSupport 9-42: the cached decision, else what admin.serverStatus() gives:
\* a status with repl ("repl"), one without ("standalone"), or an exception ("throws")
checkTransactionSupport(supported, status) ==
    IF supported # "null" THEN supported
    ELSE IF status = "throws" THEN "false"
    ELSE IF status = "repl" THEN "true" ELSE "false"

\* checkTransactionSupport 20-22, 36-37: a check that asked the server has logged
checkLogged(supported, logged) == IF supported # "null" THEN logged ELSE TRUE

\* a check that writes its notice whether or not one was written before
NoticesAfterEveryCheck(supported, logged, n, status) ==
    IF supported # "null" THEN n
    ELSE IF status = "repl" THEN n ELSE n + 1

\* checkTransactionSupport 20-29, 36-39: the standalone-mode notice is written by a check
\* that asked the server, found no replica set (or failed) and found nothing logged yet
NoticesAfter(supported, logged, n, status) ==
    IF supported # "null" \/ logged THEN n
    ELSE IF status = "repl" THEN n ELSE n + 1

\* a withTransaction that always takes the branch without a session
BeginWithoutSession(p, supported) == [p EXCEPT !.session = FALSE, !.pc = "begin"]

\* withTransaction 50-54: a session is started when transactions are supported, then fn runs
Begin(p, supported) == [p EXCEPT !.session = (supported = "true"), !.pc = "begin"]

\* session.commitTransaction() 58: the transaction's writes reach the store together
Commit(db, p) ==
    LET snap == p.snap
        merged ==
          [wallets |-> [u \in DOMAIN db.wallets |->
                          IF WalletKey(u) \in p.wrote THEN snap.wallets[u] ELSE db.wallets[u]],
           ledger |-> db.ledger \o SubSeq(snap.ledger, p.baseLedger + 1, Len(snap.ledger)),
           bets |-> [i \in DOMAIN db.bets |->
                          IF BetKey(i) \in p.wrote THEN snap.bets[i] ELSE db.bets[i]]
                    \o SubSeq(snap.bets, p.baseBets + 1, Len(snap.bets)),
           applied |-> [i \in DOMAIN db.applied |->
                          IF i \in p.settledNow THEN db.applied[i] + 1 ELSE db.applied[i]]
                       \o SubSeq(snap.applied, p.baseBets + 1, Len(snap.applied))]
    IN Res(IF p.hasSnap THEN merged ELSE db, Finished(p, ErrNone))

\* a catch block that commits what the body had written before rethrowing
AbortKeepsWrites(db, p) == Res(Commit(db, p).db, Finished(p, p.err))

\* session.abortTransaction() 61-62: the writes are dropped and the error is rethrown
Abort(db, p) == Res(db, Finished(p, p.err))

\* one awaited step of a call
Step(db, p, locked, cache) ==
    CASE p.pc = "begin" /\ p.kind = "place" -> PlaceBegin(db, p, cache)
      [] p.pc = "begin" /\ p.kind = "settle" -> SettleBegin(db, p)
      [] p.pc = "lock_find" -> LockFind(db, p)
      [] p.pc = "lock_save" -> WalletSave(db, p, locked, "lock_tx")
      [] p.pc = "lock_tx" -> LockTx(db, p)
      [] p.pc = "bet_create" -> BetCreate(db, p)
      [] p.pc = "find" -> SettleFind(db, p)
      [] p.pc = "se_find" -> SettleExposureFind(db, p)
      [] p.pc = "se_save1" -> SettleExposureSave1(db, p, locked)
      [] p.pc = "se_save2" -> WalletSave(db, p, locked, "se_tx")
      [] p.pc = "se_tx" -> SettleExposureTx(db, p)
      [] p.pc = "bet_save" -> BetSave(db, p, locked)
      [] p.pc = "commit" -> Commit(db, p)
      [] p.pc = "abort" -> Abort(db, p)

\* a call that runs alone, from fn's first statement to its return or rejection
RECURSIVE Run(_, _, _)
Run(db, p, cache) ==
    IF p.pc = "done" THEN Res(db, p)
    ELSE LET r == Step(db, p, {}, cache) IN Run(r.db, r.p, cache)

----------------------------------------------------------------------------
(* Inputs *)

PlacePayload(marketId, marketType, selectionId, selectionName, betType, odds, rate, lineValue, stake) ==
    [sport |-> "cricket", eventId |-> "e1", marketId |-> marketId, marketType |-> marketType,
     selectionId |-> selectionId, selectionName |-> selectionName, betType |-> betType,
     odds |-> odds, rate |-> rate, lineValue |-> lineValue, stake |-> stake]

BackA10 == PlacePayload("m1", MATCH_ODDS, "s1", "A", "back", 200, 0, 0, 10)

LayA10 == PlacePayload("m1", MATCH_ODDS, "s1", "A", "lay", 300, 0, 0, 10)

BackASub == PlacePayload("m1", MATCH_ODDS, "s1", "A", "back", 200, 0, 0, 4)

BackAStale == PlacePayload("m1", MATCH_ODDS, "s1", "A", "back", 190, 0, 0, 10)

FancyYes10 == PlacePayload("m2", BOOKMAKERS_FANCY, "f1", "Runs", "yes", 90, 90, 0, 10)

LineBadValue == PlacePayload("m3", LINE_MARKET, "l1", "Total", "over", 190, 0, -5, 10)

BadSport == [BackA10 EXCEPT !.sport = "hockey"]

PlacePayloads ==
    {BackA10, LayA10, BackASub, BackAStale, FancyYes10, LineBadValue, BadSport}

SettleMatchOddsPayload(winnerSelectionId) ==
    [marketType |-> MATCH_ODDS, marketId |-> "m1", eventId |-> "e1",
     winnerSelectionId |-> winnerSelectionId]

SettleFancyPayload(resultMap) ==
    [marketType |-> BOOKMAKERS_FANCY, marketId |-> "m2", eventId |-> "e1", resultMap |-> resultMap]

SettleLinePayload(finalValue) ==
    [marketType |-> LINE_MARKET, marketId |-> "m3", eventId |-> "e1", finalValue |-> finalValue]

NoResultMap == [x \in {} |-> "yes"]

SettlePayloads ==
    { SettleMatchOddsPayload("s1"), SettleMatchOddsPayload("s2"),
      SettleFancyPayload(NoResultMap),
      [marketType |-> "tos_maket", marketId |-> "m1", eventId |-> "e1"] }

\* funded wallets, as left by earlier deposits
InitialWallets == { [u \in Users |-> WalletDoc(20, 0, TRUE, FALSE)] }

----------------------------------------------------------------------------
(* State machine: calls run one at a time (Spec) *)

Db == [wallets |-> wallets, ledger |-> ledger, bets |-> bets, applied |-> applied]

NoCall == [kind |-> "none", user |-> "none", args |-> <<>>, err |-> ErrNone,
           session |-> FALSE, pre |-> EmptyDb, cache |-> <<>>]

Init ==
    /\ wallets \in InitialWallets
    /\ ledger = <<>>
    /\ bets = <<>>
    /\ applied = <<>>
    /\ eventDataCache = [s \in {"cricket"} |-> <<>>]
    /\ transactionSupported = "null"
    /\ transactionCheckLogged = FALSE
    /\ notices = 0
    /\ procs = <<>>
    /\ last = NoCall
    /\ calls = 0

SetDb(d) ==
    /\ wallets' = d.wallets
    /\ ledger' = d.ledger
    /\ bets' = d.bets
    /\ applied' = d.applied

\* a whole call of the service, run to its return: kind is "place" or "settle"
Call(kind, user, args, status) ==
    LET supported == checkTransactionSupport(transactionSupported, status)
        r == Run(Db, Begin(NewProc(kind, user, args), supported), eventDataCache)
    IN /\ transactionSupported' = supported
       /\ transactionCheckLogged' = checkLogged(transactionSupported, transactionCheckLogged)
       /\ notices' = NoticesAfter(transactionSupported, transactionCheckLogged, notices, status)
       /\ SetDb(r.db)
       /\ last' = [kind |-> kind, user |-> user, args |-> args,
                   err |-> r.p.err, session |-> r.p.session, pre |-> Db,
                   cache |-> eventDataCache]
       /\ calls' = calls + 1
       /\ UNCHANGED <<eventDataCache, procs>>

\* admin.serverStatus() is only reached while the decision is not cached: transaction.helper.js 10-16
ServerStatus == IF transactionSupported = "null" THEN {"repl", "standalone", "throws"} ELSE {"cached"}

\* POST /place -> betService.placeBet(userId, payload)
PlaceBet(u, payload) ==
    /\ procs = <<>>
    /\ calls < MaxCalls
    /\ Len(bets) < MaxBets
    /\ \E status \in ServerStatus : Call("place", u, payload, status)

\* POST /settle -> betService.settleMarket(payload)
SettleMarket(payload) ==
    /\ procs = <<>>
    /\ calls < MaxCalls
    /\ \E status \in ServerStatus : Call("settle", "admin", payload, status)

\* the feed poller stores a fresh snapshot: cricketevent.service.js 32-35
FetchCricketEventData(eventId, data) ==
    /\ eventDataCache' = [eventDataCache EXCEPT
                            !["cricket"] = [e \in (DOMAIN @) \cup {eventId} |->
                                              IF e = eventId THEN data ELSE @[e]]]
    /\ UNCHANGED <<wallets, ledger, bets, applied, transactionSupported, transactionCheckLogged, notices,
                   procs, last, calls>>

Next ==
    \/ \E u \in Users, payload \in PlacePayloads : PlaceBet(u, payload)
    \/ \E payload \in SettlePayloads : SettleMarket(payload)
    \/ \E e \in EventIds, data \in FeedResponses : FetchCricketEventData(e, data)

Spec == Init /\ [][Next]_vars

----------------------------------------------------------------------------
(* State machine: two calls in flight, one awaited step at a time (SpecConc) *)

Slots == {1, 2}

Idle == [NewProc("none", "none", <<>>) EXCEPT !.pc = "idle"]

InFlight(p) == p.pc \notin {"idle", "done"}

LiveCache == [s \in {"cricket"} |-> [e \in EventIds |-> MarketsLive]]

FreshDb == [wallets |-> CHOOSE w \in InitialWallets : TRUE, ledger |-> <<>>, bets |-> <<>>,
            applied |-> <<>>]

SetupRequests == {<<"u1", BackA10>>, <<"u2", BackA10>>, <<"u1", LayA10>>}

ConcPlaceRequests == {<<"u1", BackA10>>, <<"u1", LayA10>>}

ConcSettlePayloads == {SettleMatchOddsPayload("s1"), SettleMatchOddsPayload("s2")}

\* the stores left by at most n earlier placements, each run alone
RECURSIVE StoresAfter(_, _)
StoresAfter(n, supported) ==
    IF n = 0 THEN {FreshDb}
    ELSE LET prev == StoresAfter(n - 1, supported)
         IN prev \cup
            { Run(d, Begin(NewProc("place", rq[1], rq[2]), supported), LiveCache).db :
                d \in prev, rq \in SetupRequests }

InitConc ==
    /\ transactionSupported \in {"true", "false"}
    /\ transactionCheckLogged = TRUE
    /\ notices = (IF transactionSupported = "false" THEN 1 ELSE 0)
    /\ eventDataCache = LiveCache
    /\ \E d \in StoresAfter(MaxBets, transactionSupported) :
          /\ wallets = d.wallets /\ ledger = d.ledger /\ bets = d.bets /\ applied = d.applied
          /\ last = [NoCall EXCEPT !.pre = d]
    /\ procs = [i \in Slots |-> Idle]
    /\ calls = 0

Ended == {j \in Slots : procs[j].pc = "done"}

StartCall(i, kind, user, args) ==
    /\ procs[i].pc = "idle"
    /\ procs' = [procs EXCEPT ![i] = [NewProc(kind, user, args) EXCEPT !.startedAfter = Ended]]
    /\ calls' = calls + 1
    /\ UNCHANGED <<wallets, ledger, bets, applied, eventDataCache, transactionSupported, transactionCheckLogged, notices, last>>

StartPlace(i, user, payload) ==
    /\ Len(bets) + Cardinality({j \in Slots : InFlight(procs[j]) /\ procs[j].kind = "place"}) < MaxBets
    /\ StartCall(i, "place", user, payload)

StartSettle(i, payload) == StartCall(i, "settle", "admin", payload)

\* withTransaction 50-54 for the call in slot i
CheckSupport(i) ==
    /\ procs[i].pc = "check"
    /\ procs' = [procs EXCEPT ![i] = Begin(@, checkTransactionSupport(transactionSupported, "cached"))]
    /\ UNCHANGED <<wallets, ledger, bets, applied, eventDataCache, transactionSupported, transactionCheckLogged, notices, last, calls>>

\* documents written by the open transactions of the other calls
LockedByOthers(i) == UNION {procs[j].wrote : j \in Slots \ {i}}

\* one awaited step of the call in slot i; a commit makes the snapshots of the other
\* open transactions stale on the documents it wrote
StepCall(i) ==
    /\ InFlight(procs[i])
    /\ procs[i].pc # "check"
    /\ LET p == procs[i]
           r == Step(Db, p, LockedByOthers(i), eventDataCache)
       IN /\ SetDb(r.db)
          /\ procs' = [j \in Slots |->
                         IF j = i THEN r.p
                         ELSE IF p.pc = "commit" /\ procs[j].hasSnap
                              THEN [procs[j] EXCEPT !.stale = @ \cup p.wrote]
                              ELSE procs[j]]
    /\ UNCHANGED <<eventDataCache, transactionSupported, transactionCheckLogged, notices, last, calls>>

\* the call in slot i is interrupted: an open transaction is never committed,
\* writes made without a session stay
Crash(i) ==
    /\ InFlight(procs[i])
    /\ procs' = [procs EXCEPT ![i] = [Finished(@, "crashed") EXCEPT !.at = procs[i].pc]]
    /\ UNCHANGED <<wallets, ledger, bets, applied, eventDataCache, transactionSupported, transactionCheckLogged, notices, last, calls>>

NextConc ==
    \/ \E i \in Slots, rq \in ConcPlaceRequests : StartPlace(i, rq[1], rq[2])
    \/ \E i \in Slots, payload \in ConcSettlePayloads : StartSettle(i, payload)
    \/ \E i \in Slots : CheckSupport(i)
    \/ \E i \in Slots : StepCall(i)
    \/ \E i \in Slots : Crash(i)

SpecConc == InitConc /\ [][NextConc]_vars

----------------------------------------------------------------------------
(* Properties of calls run one at a time (Spec) *)

\* the bets the last settleMarket call loaded
Loaded == OpenBets(last.pre.bets, last.args, 1)

\* sum over the loaded bets of user u, from entry k on, of the net results in paise
RECURSIVE NetSum(_, _, _, _)
NetSum(list, args, u, k) ==
    IF k > Len(list) THEN 0
    ELSE (IF list[k].bet.userId = u THEN toInt(BetResult(list[k].bet, args).netWinAmount) ELSE 0)
         + NetSum(list, args, u, k + 1)

\* sum over the loaded bets of user u, from entry k on, of the exposures in paise
RECURSIVE ExposureSum(_, _, _)
ExposureSum(list, u, k) ==
    IF k > Len(list) THEN 0
    ELSE (IF list[k].bet.userId = u THEN toInt(list[k].bet.exposure) ELSE 0)
         + ExposureSum(list, u, k + 1)

\* C1: a successful settlement moves, for every owner, the exposures E of the settled bets
\* out of locked and E + N into available, so the wallet's worth changes by the sum of the
\* net results N (amounts compared in minor units)
C1_SettlementNetsExactly ==
    (last.kind = "settle" /\ last.err = ErrNone /\ last.args.marketType \in MARKET_TYPES) =>
        \A u \in Users :
            /\ toInt(wallets[u].lockedBalance) =
                  toInt(last.pre.wallets[u].lockedBalance) - ExposureSum(Loaded, u, 1)
            /\ toInt(wallets[u].balance) =
                  toInt(last.pre.wallets[u].balance) + ExposureSum(Loaded, u, 1)
                  + NetSum(Loaded, last.args, u, 1)

\* C2: a settleMarket call that directly follows one with the same arguments succeeds
\* and changes no wallet, ledger record or bet
C2_SecondSettleChangesNothing ==
    [][(last.kind = "settle" /\ last'.kind = "settle" /\ last'.args = last.args
        /\ last.args.marketType \in MARKET_TYPES /\ calls' = calls + 1)
       => (wallets' = wallets /\ ledger' = ledger /\ bets' = bets /\ last'.err = ErrNone)]_vars

\* the exposure placeBet computed for the last placement
LastExposure ==
    calculateExposure(last.args.marketType, last.args.betType, last.args.stake,
                      last.args.odds, last.args.rate).value

StoreUnchanged == wallets = last.pre.wallets /\ ledger = last.pre.ledger /\ bets = last.pre.bets

\* C7 as stated: a failed placeBet leaves bets, wallet and ledger as they were
C7_FailedPlacementChangesNothing ==
    (last.kind = "place" /\ last.err # ErrNone) => StoreUnchanged

\* C7 amended: a failed placeBet persists no bet; wallet and ledger are as before when
\* the call ran in a transaction or failed before the bet record was persisted
C7_FailedPlacementAmended ==
    (last.kind = "place" /\ last.err # ErrNone) =>
        /\ bets = last.pre.bets
        /\ (last.session \/ last.err # ErrValidation) => StoreUnchanged

C7_Witness ==
    last.kind = "place" /\ last.err = ErrValidation /\ last.session

\* what a successful placement leaves, when the wallet moves by amount `moved`
PlacementEffect(moved) ==
    LET u == last.user
        before == last.pre.wallets[u]
    IN /\ wallets[u].balance = before.balance - moved
       /\ wallets[u].lockedBalance = before.lockedBalance + moved
       /\ \A v \in Users \ {u} : wallets[v] = last.pre.wallets[v]
       /\ bets = Append(last.pre.bets, NewBet(u, last.args, LastExposure))
       /\ ledger = Append(last.pre.ledger,
                          LedgerTx(u, "debit", LastExposure, before.balance,
                                   wallets[u].balance, "bet_exposure_lock"))

\* C8 as stated: a successful placement moves exactly the computed exposure from
\* available to locked, adds one open bet and one debit record
C8_PlacementMovesExposure ==
    (last.kind = "place" /\ last.err = ErrNone) => PlacementEffect(LastExposure)

\* C8 amended: the wallet moves by the exposure rounded to the nearest minor unit
C8_PlacementMovesRoundedExposure ==
    (last.kind = "place" /\ last.err = ErrNone) => PlacementEffect(fromInt(toInt(LastExposure)))

C8_Witness ==
    last.kind = "place" /\ last.err = ErrNone /\ fromInt(toInt(LastExposure)) # LastExposure

\* the last placement got as far as the funds check of lockExposure and its bet document is valid
ReachedFundsCheck ==
    /\ last.kind = "place"
    /\ ValidatePlacement(last.cache, last.args) = ErrNone
    /\ LastExposure > 0
    /\ isAvailable(last.pre.wallets[last.user])
    /\ BetValid(last.args, LastExposure)

\* C9: exposure equal to available succeeds and leaves 0; exposure one minor unit above
\* available fails with the insufficient-funds error and changes nothing
C9_FundsBoundary ==
    ReachedFundsCheck =>
        LET available == last.pre.wallets[last.user].balance
        IN /\ (LastExposure = available) =>
                 (last.err = ErrNone /\ wallets[last.user].balance = 0)
           /\ (LastExposure = available + fromInt(1)) =>
                 (last.err = ErrInsufficient /\ StoreUnchanged)

C9_Witness ==
    /\ ReachedFundsCheck
    /\ LastExposure = last.pre.wallets[last.user].balance
    /\ last.err = ErrNone

\* C10: no wallet ever holds a negative available or locked balance
C10_BalancesNonNegative ==
    \A u \in Users : wallets[u].balance >= 0 /\ wallets[u].lockedBalance >= 0

\* a lost bet was being settled for an owner whose available balance is below the lost exposure
C10_Witness ==
    /\ last.kind = "settle" /\ last.args.marketType \in MARKET_TYPES
    /\ \E k \in 1..Len(Loaded) :
          LET bet == Loaded[k].bet
          IN /\ BetResult(bet, last.args).settlementResult = "lost"
             /\ last.pre.wallets[bet.userId].balance < bet.exposure

----------------------------------------------------------------------------
(* Properties of calls in flight together (SpecConc) *)

\* both slots hold calls of this kind that ran overlapping and were not interrupted
Concurrent(kind) ==
    \A i \in Slots : /\ procs[i].kind = kind
                     /\ procs[i].startedAfter = {}
                     /\ procs[i].err # "crashed"

TransactionsOn == transactionSupported = "true"

AppliedAtMostOnce == \A b \in DOMAIN applied : applied[b] <= 1

\* C3 as stated: whatever the interleaving of two concurrent settleMarket calls for the
\* same market, no bet's settlement effect is applied twice
C3_ConcurrentSettleOnce ==
    (Concurrent("settle") /\ procs[1].args.marketId = procs[2].args.marketId)
        => AppliedAtMostOnce

\* C3 amended: with storage transactions, no bet's settlement effect is applied twice
C3_ConcurrentSettleOnceInTransactions ==
    (TransactionsOn /\ Concurrent("settle") /\ procs[1].args.marketId = procs[2].args.marketId)
        => AppliedAtMostOnce

\* two overlapping settlements of a market with an open bet both ended, one by a write conflict
C3_Witness ==
    /\ TransactionsOn /\ Concurrent("settle")
    /\ procs[1].args.marketId = procs[2].args.marketId
    /\ \A i \in Slots : procs[i].pc = "done"
    /\ \E i \in Slots : procs[i].err = ErrWriteConflict
    /\ \E b \in DOMAIN applied : applied[b] = 1

\* sum of the exposures, in paise, of the bets of user u from index k on
RECURSIVE CreatedExposure(_, _, _)
CreatedExposure(betSeq, u, k) ==
    IF k > Len(betSeq) THEN 0
    ELSE (IF betSeq[k].userId = u THEN toInt(betSeq[k].exposure) ELSE 0)
         + CreatedExposure(betSeq, u, k + 1)

\* the wallet of the placing user moved by the exposures of the bets created since the
\* calls began, and two placements that only fit one at a time did not both succeed
NoLostUpdate ==
    LET u == procs[1].user
        before == last.pre.wallets[u]
        created == CreatedExposure(bets, u, Len(last.pre.bets) + 1)
        e1 == calculateExposure(procs[1].args.marketType, procs[1].args.betType,
                                procs[1].args.stake, procs[1].args.odds, procs[1].args.rate).value
        e2 == calculateExposure(procs[2].args.marketType, procs[2].args.betType,
                                procs[2].args.stake, procs[2].args.odds, procs[2].args.rate).value
    IN /\ wallets[u].balance = before.balance - fromInt(created)
       /\ wallets[u].lockedBalance = before.lockedBalance + fromInt(created)
       /\ (e1 <= before.balance /\ e2 <= before.balance /\ e1 + e2 > before.balance)
             => ~(procs[1].err = ErrNone /\ procs[2].err = ErrNone)

BothPlacementsEnded ==
    /\ Concurrent("place")
    /\ procs[1].user = procs[2].user
    /\ \A i \in Slots : procs[i].pc = "done"

\* C4 as stated: after any interleaving of two concurrent placements of one user the
\* wallet has moved by exactly the exposures of the created bets, and two placements
\* that together exceed the available balance do not both succeed
C4_ConcurrentPlacements == BothPlacementsEnded => NoLostUpdate

\* C4 amended: the same, with storage transactions
C4_ConcurrentPlacementsInTransactions ==
    (TransactionsOn /\ BothPlacementsEnded) => NoLostUpdate

\* two overlapping placements that only fit one at a time: one succeeded, one met a write conflict
C4_Witness ==
    /\ TransactionsOn /\ BothPlacementsEnded
    /\ \E i \in Slots : procs[i].err = ErrNone /\ procs[3 - i].err = ErrWriteConflict

\* the bets addressed by a settlement with these arguments
InMarket(bet, args) ==
    bet.marketId = args.marketId /\ bet.eventId = args.eventId /\ bet.marketType = args.marketType

\* every bet of the market is settled with its effect applied once, or open with none applied
SettledOrUntouched(args) ==
    \A b \in DOMAIN bets :
        InMarket(bets[b], args) =>
            \/ bets[b].status = "settled" /\ applied[b] = 1
            \/ bets[b].status = "open" /\ applied[b] = 0

\* the store after one uninterrupted settlement of the initial store
Uninterrupted(args) ==
    Run(last.pre, Begin(NewProc("settle", "admin", args), transactionSupported), eventDataCache).db

\* slot i holds an interrupted settlement and the other slot ran no call while it was in flight
Interrupted(i) ==
    /\ procs[i].kind = "settle"
    /\ procs[i].err = "crashed"
    /\ procs[i].startedAfter = {}
    /\ procs[3 - i].pc = "idle" \/ i \in procs[3 - i].startedAfter

\* slot i holds the settlement re-invoked after the interruption, and it has returned
Retried(i) ==
    /\ procs[3 - i].kind = "settle"
    /\ procs[3 - i].args = procs[i].args
    /\ procs[3 - i].pc = "done"
    /\ procs[3 - i].err # "crashed"

CrashSafe ==
    \A i \in Slots :
        Interrupted(i) =>
            /\ procs[3 - i].pc = "idle" => SettledOrUntouched(procs[i].args)
            /\ Retried(i) =>
                  /\ wallets = Uninterrupted(procs[i].args).wallets
                  /\ bets = Uninterrupted(procs[i].args).bets
                  /\ AppliedAtMostOnce

\* C5 as stated: an interrupted settleMarket leaves every bet settled with its effect
\* applied or open with none, and a later settleMarket with the same outcome ends with
\* the wallets and bets of one uninterrupted settlement
C5_CrashThenRetry == CrashSafe

\* C5 amended: the same, with storage transactions
C5_CrashThenRetryInTransactions == TransactionsOn => CrashSafe

\* a settlement interrupted after its first wallet save, then re-invoked to completion
C5_Witness ==
    /\ TransactionsOn
    /\ \E i \in Slots :
          /\ Interrupted(i) /\ Retried(i)
          /\ procs[i].at \in {"se_save2", "se_tx", "bet_save", "commit"}
          /\ procs[3 - i].err = ErrNone
          /\ \E b \in DOMAIN applied : applied[b] = 1

\* C6: with storage transactions, no step of a call before its commit changes the store,
\* a throwing body ends with its error and an unchanged store, and the commit publishes
\* every document the body wrote and every record it appended, together
C6_TransactionAllOrNothing ==
    [][\A i \in Slots :
          (procs[i].session /\ InFlight(procs[i]) /\ procs'[i].pc # procs[i].pc) =>
             /\ procs[i].pc # "commit" =>
                   (wallets' = wallets /\ ledger' = ledger /\ bets' = bets)
             /\ (procs[i].pc = "abort" /\ procs'[i].err # "crashed") =>
                   (procs'[i].pc = "done" /\ procs'[i].err = procs[i].err
                    /\ procs'[i].err # ErrNone)
             /\ (procs[i].pc = "commit" /\ procs'[i].err # "crashed") =>
                   /\ procs'[i].err = ErrNone
                   /\ \A u \in Users : WalletKey(u) \in procs[i].wrote =>
                          wallets'[u] = procs[i].snap.wallets[u]
                   /\ \A b \in DOMAIN bets : BetKey(b) \in procs[i].wrote =>
                          bets'[b] = procs[i].snap.bets[b]
                   /\ Len(ledger') - Len(ledger) = Len(procs[i].snap.ledger) - procs[i].baseLedger
                   /\ Len(bets') - Len(bets) = Len(procs[i].snap.bets) - procs[i].baseBets
      ]_vars

\* a body that threw after it had written a wallet
C6_Witness ==
    \E i \in Slots : procs[i].session /\ procs[i].pc = "abort" /\ procs[i].wrote # {}

----------------------------------------------------------------------------
(* Properties of the ledger between calls (Spec) *)

\* sum of the exposure fields of the open bets of user u, from index k on
RECURSIVE OpenExposure(_, _, _)
OpenExposure(betSeq, u, k) ==
    IF k > Len(betSeq) THEN 0
    ELSE (IF betSeq[k].userId = u /\ betSeq[k].status = "open" THEN betSeq[k].exposure ELSE 0)
         + OpenExposure(betSeq, u, k + 1)

\* the same sum with each exposure rounded to minor units
RECURSIVE OpenExposureInt(_, _, _)
OpenExposureInt(betSeq, u, k) ==
    IF k > Len(betSeq) THEN 0
    ELSE (IF betSeq[k].userId = u /\ betSeq[k].status = "open"
          THEN toInt(betSeq[k].exposure) ELSE 0)
         + OpenExposureInt(betSeq, u, k + 1)

\* C11 as stated: between calls, every user's locked balance equals the sum of the
\* exposure fields of that user's open bets
C11_LockedIsOpenExposure ==
    \A u \in Users : wallets[u].lockedBalance = OpenExposure(bets, u, 1)

\* C11 amended: with storage transactions, every user's locked balance in minor units
\* equals the sum of the minor-unit rounded exposures of that user's open bets
C11_LockedIsRoundedOpenExposure ==
    transactionSupported # "false" =>
        \A u \in Users : toInt(wallets[u].lockedBalance) = OpenExposureInt(bets, u, 1)

\* a settlement in a transaction released a bet of a user who still has another bet open
C11_Witness ==
    /\ last.kind = "settle" /\ last.session /\ last.err = ErrNone
    /\ \E k \in 1..Len(Loaded) :
          /\ bets[Loaded[k].id].status = "settled"
          /\ OpenExposureInt(bets, Loaded[k].bet.userId, 1) > 0

\* C12: with storage transactions (so that every open bet and every locked amount comes
\* from a successful placeBet), settleMarket succeeds, leaves none of the bets it found
\* open, gives each a result and applies each one's ledger effect exactly once
C12_SettlementCompletes ==
    (last.kind = "settle" /\ last.session /\ last.args.marketType \in MARKET_TYPES) =>
        /\ last.err = ErrNone
        /\ \A k \in 1..Len(Loaded) :
              /\ bets[Loaded[k].id].status = "settled"
              /\ bets[Loaded[k].id].settlementResult \in {"won", "lost", "void"}
              /\ applied[Loaded[k].id] = 1

\* the last call settled a session market and no bet it found has an entry in the result map
VoidingSettlement ==
    /\ last.kind = "settle"
    /\ last.args.marketType = BOOKMAKERS_FANCY
    /\ Loaded # <<>>
    /\ \A k \in 1..Len(Loaded) : Loaded[k].bet.selectionId \notin DOMAIN last.args.resultMap

SettledAlone(k) ==
    LET p0 == Begin(NewProc("settle", "admin", last.args), IF last.session THEN "true" ELSE "false")
        p == [WithSnapshot(last.pre, p0) EXCEPT !.list = <<Loaded[k]>>, !.i = 0]
        r == NextBet(last.pre, p)
    IN Run(r.db, r.p, last.cache)

\* C14: when settleMarket fails for a reason other than a ledger inconsistency, every bet
\* it found whose own settlement succeeds is settled all the same
C14_FailureDoesNotStopOthers ==
    (last.kind = "settle" /\ last.args.marketType \in MARKET_TYPES
     /\ last.err \notin {ErrNone, ErrInconsistent}) =>
        \A k \in 1..Len(Loaded) :
            SettledAlone(k).p.err = ErrNone => bets[Loaded[k].id].status = "settled"

\* the first bet the last settleMarket call found belongs to a wallet whose locked balance
\* is below the bet's exposure
FirstBetInconsistent ==
    /\ last.kind = "settle" /\ last.args.marketType \in MARKET_TYPES
    /\ Loaded # <<>>
    /\ toInt(WalletGetter(last.pre.wallets[Loaded[1].bet.userId].lockedBalance))
          < toInt(Loaded[1].bet.exposure)

\* C15: a bet whose owner's locked balance is below its exposure makes settleMarket fail
\* with the inconsistency error; the wallet is not touched, no record is written and the
\* bet stays open (in a transaction nothing of the call remains at all)
C15_InconsistencyIsNotCorrected ==
    /\ FirstBetInconsistent => (last.err = ErrInconsistent /\ StoreUnchanged)
    /\ (last.kind = "settle" /\ last.err = ErrInconsistent) =>
          /\ \E k \in 1..Len(Loaded) :
                /\ bets[Loaded[k].id] = Loaded[k].bet
                /\ \A j \in 1..(k - 1) : bets[Loaded[j].id].status = "settled"
                /\ toInt(WalletGetter(wallets[Loaded[k].bet.userId].lockedBalance))
                      < toInt(Loaded[k].bet.exposure)
          /\ last.session => StoreUnchanged

C15_Witness == FirstBetInconsistent /\ last.err = ErrInconsistent

----------------------------------------------------------------------------
(* State machine: placements against a feed that moves (SpecPlace) *)

LadderAMoved == <<Price("back", 210), Price("lay", 320)>>

\* a later snapshot: the prices of selection A moved, selection B is suspended, the
\* session market is suspended and the line market is gone
MarketsMoved ==
    << Market("m1", "OPEN", "MATCH_ODDS",
              <<Section("s1", "A", "ACTIVE", LadderAMoved),
                Section("s2", "B", "SUSPENDED", LadderB)>>),
       Market("m2", "SUSPENDED", "Fancy", <<Section("f1", "Runs", "", LadderFancy)>>) >>

FeedUpdates == {MarketsLive, MarketsMoved}

BackB10 == PlacePayload("m1", MATCH_ODDS, "s2", "B", "back", 300, 0, 0, 10)

FancyYesMoved == PlacePayload("m2", BOOKMAKERS_FANCY, "f1", "Runs", "yes", 95, 95, 0, 10)

FancyOver10 == PlacePayload("m2", BOOKMAKERS_FANCY, "f1", "Runs", "over", 90, 90, 0, 10)

BackANoOdds == PlacePayload("m1", MATCH_ODDS, "s1", "A", "back", 0, 0, 0, 10)

MatchOddsYes10 == PlacePayload("m1", MATCH_ODDS, "s1", "A", "yes", 200, 0, 0, 10)

LineOver10 == PlacePayload("m3", LINE_MARKET, "l1", "Total", "over", 0, 0, 5, 10)

LineYes10 == PlacePayload("m3", LINE_MARKET, "l1", "Total", "yes", 0, 0, 5, 10)

PlacementInputs ==
    {BackA10, BackAStale, BackB10, FancyYes10, FancyYesMoved, FancyOver10, BackANoOdds,
     MatchOddsYes10, LineOver10, LineYes10}

NextPlace ==
    \/ \E payload \in PlacementInputs : PlaceBet("u1", payload)
    \/ \E e \in EventIds, data \in FeedUpdates : FetchCricketEventData(e, data)

SpecPlace == Init /\ [][NextPlace]_vars

----------------------------------------------------------------------------
(* Properties of placement validation (SpecPlace) *)

\* what the last placement found in the cache: the snapshot, the market, the selection
LastSnapshot == getEventDataFromCache(last.cache, last.args.sport, last.args.eventId)

LastMarketIndex == FindFirst(LastSnapshot.data, LAMBDA m : m.mid = last.args.marketId)

LastMarket == LastSnapshot.data[LastMarketIndex]

LastSectionIndex ==
    MatchSection(LastMarket.section, last.args.selectionId, last.args.selectionName)

LastSection == LastMarket.section[LastSectionIndex]

MarketUnavailable ==
    \/ ~LastSnapshot.found
    \/ LastMarketIndex = 0
    \/ LastMarket.status # "OPEN"

\* C16: without a cached snapshot, without the market in it, or with the market not OPEN,
\* the placement is rejected and wallets, ledger and bets are unchanged
C16_UnavailableMarketRejected ==
    (last.kind = "place" /\ last.args.sport \in SportEnum /\ MarketUnavailable) =>
        (last.err # ErrNone /\ StoreUnchanged)

\* a placement on a market that the snapshot shows as not OPEN
C16_Witness ==
    /\ last.kind = "place" /\ last.args.sport \in SportEnum
    /\ LastSnapshot.found /\ LastMarketIndex # 0 /\ LastMarket.status # "OPEN"
    /\ last.err = "Market is not open"

\* the price rows the requested side reads: back for back and yes, lay for lay and no
RequestedSide ==
    IF last.args.marketType = MATCH_ODDS
    THEN (IF last.args.betType \in {"back", "lay"} THEN last.args.betType ELSE "none")
    ELSE (IF last.args.betType = "yes" THEN "back"
          ELSE IF last.args.betType = "no" THEN "lay" ELSE "none")

SubmittedPrice ==
    IF last.args.marketType = MATCH_ODDS THEN last.args.odds ELSE last.args.rate

\* the snapshot quotes the submitted price for the requested side of the requested selection
Quoted ==
    /\ LastSnapshot.found /\ LastMarketIndex # 0 /\ LastSectionIndex # 0
    /\ \E i \in 1..Len(LastSection.odds) :
          /\ LastSection.odds[i].otype = RequestedSide
          /\ LastSection.odds[i].odds = SubmittedPrice

\* the validation got as far as comparing prices
ReachedLadder ==
    /\ LastSnapshot.found /\ LastMarketIndex # 0 /\ LastMarket.status = "OPEN"
    /\ LastSectionIndex # 0
    /\ IF last.args.marketType = MATCH_ODDS THEN LastSection.gstatus = "ACTIVE"
       ELSE LastSection.gstatus # "SUSPENDED"
    /\ RequestedSide # "none"

PricedPlacement ==
    /\ last.kind = "place" /\ last.args.sport \in SportEnum
    /\ last.args.marketType \in {MATCH_ODDS, BOOKMAKERS_FANCY}

\* C17: a fixed-odds or session placement whose submitted price the latest snapshot does
\* not quote for the requested side is rejected, with the price-changed error once the
\* prices are compared, and nothing is locked
C17_UnquotedPriceRejected ==
    (PricedPlacement /\ ~Quoted) =>
        /\ last.err # ErrNone
        /\ StoreUnchanged
        /\ ReachedLadder => last.err = ErrValueChange

\* a price that was the best back price before the feed moved is submitted after it moved
C17_Witness ==
    /\ PricedPlacement /\ ~Quoted /\ ReachedLadder
    /\ last.args = BackA10
    /\ LastSnapshot.data = MarketsMoved
    /\ last.err = ErrValueChange

\* C18: a placement is accepted only if the snapshot's market has the requested
\* selection and that selection is not suspended
C18_AcceptedSelectionIsActive ==
    (last.kind = "place" /\ last.err = ErrNone) =>
        /\ LastSectionIndex # 0
        /\ LastSection.gstatus # "SUSPENDED"

\* the sides each market type allows
LegalSides(marketType) ==
    CASE marketType = MATCH_ODDS -> {"back", "lay"}
      [] marketType = BOOKMAKERS_FANCY -> {"yes", "no"}
      [] marketType \in {LINE_MARKET, METER_MARKET} -> {"over", "under"}
      [] OTHER -> BetTypeEnum

InvalidMarketInput ==
    \/ last.args.betType \notin LegalSides(last.args.marketType)
    \/ last.args.marketType = MATCH_ODDS /\ last.args.odds <= 0
    \/ last.args.marketType = BOOKMAKERS_FANCY /\ last.args.rate <= 0

\* C20: a placement whose side is not legal for its market type, or whose required price
\* field is missing or not positive, fails and leaves wallets, ledger and bets unchanged
C20_InvalidInputRejected ==
    (last.kind = "place" /\ InvalidMarketInput) => (last.err # ErrNone /\ StoreUnchanged)

----------------------------------------------------------------------------
(* calculateExposure on its own (SpecExposure) *)

StakeInputs == {100, 300}

OddsInputs == {101, 150, 300}

RateInputs == {0, 90}

ExposureInputs ==
    [marketType : MARKET_TYPES, betType : BetTypeEnum, stake : StakeInputs,
     odds : OddsInputs, rate : RateInputs]

InitExposure ==
    /\ wallets \in InitialWallets
    /\ ledger = <<>>
    /\ bets = <<>>
    /\ applied = <<>>
    /\ eventDataCache = [s \in {"cricket"} |-> <<>>]
    /\ transactionSupported = "null"
    /\ transactionCheckLogged = FALSE
    /\ notices = 0
    /\ procs = <<>>
    /\ calls = 0
    /\ \E in \in ExposureInputs :
          last = [kind |-> "input", args |-> in, err |-> ErrNone, value |-> 0]

\* calculateExposure is applied to the drawn input
ComputeExposure ==
    /\ last.kind = "input"
    /\ LET ce == calculateExposure(last.args.marketType, last.args.betType, last.args.stake,
                                   last.args.odds, last.args.rate)
       IN last' = [kind |-> "exposure", args |-> last.args, err |-> ce.err, value |-> ce.value]
    /\ UNCHANGED <<wallets, ledger, bets, applied, eventDataCache, transactionSupported, transactionCheckLogged, notices,
                   procs, calls>>

NextExposure == ComputeExposure

SpecExposure == InitExposure /\ [][NextExposure]_vars

\* the exposure formulas, for the session markets in `session`
ExposureFormula(session) ==
    LET in == last.args
    IN /\ (in.marketType = MATCH_ODDS /\ in.betType = "back") =>
             (last.err = ErrNone /\ last.value = in.stake)
       /\ (in.marketType = MATCH_ODDS /\ in.betType = "lay") =>
             (last.err = ErrNone /\ last.value * 100 = in.stake * (in.odds - 100))
       /\ (in.marketType = BOOKMAKERS_FANCY /\ session) =>
             (last.err = ErrNone /\ last.value = in.stake)
       /\ in.marketType \in {LINE_MARKET, METER_MARKET, KADO_MARKET} =>
             (last.err = ErrNone /\ last.value = in.stake)

\* C19 as stated: stake for a fixed-odds back bet, stake x (odds - 1) for a fixed-odds lay
\* bet, stake for every session, line, meter and fixed-multiplier bet whatever the side
C19_ExposureFormulas ==
    last.kind = "exposure" => ExposureFormula(TRUE)

\* C19 amended: the same, for the session bets that carry a non-zero rate
C19_ExposureFormulasWithRate ==
    last.kind = "exposure" => ExposureFormula(last.args.rate # 0)

\* a lay bet whose liability differs from its stake
C19_Witness ==
    /\ last.kind = "exposure"
    /\ last.args.marketType = MATCH_ODDS /\ last.args.betType = "lay"
    /\ last.err = ErrNone /\ last.value # last.args.stake /\ last.value > 0

----------------------------------------------------------------------------
(* State machine: placements while administrators lock and unlock wallets (SpecWallet) *)

WalletPlacements == {BackA10, LayA10}

InitWallet ==
    /\ wallets \in [Users -> {WalletDoc(20, 0, a, FALSE) : a \in BOOLEAN}]
    /\ ledger = <<>>
    /\ bets = <<>>
    /\ applied = <<>>
    /\ eventDataCache = LiveCache
    /\ transactionSupported = "null"
    /\ transactionCheckLogged = FALSE
    /\ notices = 0
    /\ procs = <<>>
    /\ last = NoCall
    /\ calls = 0

\* wallet.lock(reason): unnamed/part_004 93-97
WalletLock(u) ==
    /\ ~wallets[u].isLocked
    /\ wallets' = [wallets EXCEPT ![u].isLocked = TRUE]
    /\ UNCHANGED <<ledger, bets, applied, eventDataCache, transactionSupported, transactionCheckLogged, notices, procs, last, calls>>

\* wallet.unlock(): unnamed/part_004 100-104
WalletUnlock(u) ==
    /\ wallets[u].isLocked
    /\ wallets' = [wallets EXCEPT ![u].isLocked = FALSE]
    /\ UNCHANGED <<ledger, bets, applied, eventDataCache, transactionSupported, transactionCheckLogged, notices, procs, last, calls>>

NextWallet ==
    \/ \E u \in Users, payload \in WalletPlacements : PlaceBet(u, payload)
    \/ \E u \in Users : WalletLock(u)
    \/ \E u \in Users : WalletUnlock(u)

SpecWallet == InitWallet /\ [][NextWallet]_vars

\* balances, ledger and bets are as before the last call (the flags may have been changed since)
BalancesUnchanged ==
    /\ \A u \in Users : /\ wallets[u].balance = last.pre.wallets[u].balance
                        /\ wallets[u].lockedBalance = last.pre.wallets[u].lockedBalance
    /\ ledger = last.pre.ledger
    /\ bets = last.pre.bets

\* the last placement met a wallet that is locked or inactive
WalletUnavailable ==
    /\ last.kind = "place"
    /\ (last.pre.wallets[last.user].isLocked \/ ~last.pre.wallets[last.user].isActive)

\* C21: a placement against a locked or inactive wallet fails, whatever the balance, with
\* the wallet error once validation has passed, and changes no wallet, record or bet
C21_UnavailableWalletRejected ==
    WalletUnavailable =>
        /\ last.err # ErrNone
        /\ BalancesUnchanged
        /\ (ValidatePlacement(last.cache, last.args) = ErrNone /\ LastExposure > 0)
              => last.err = "Wallet is locked or inactive"

\* a locked wallet that could have covered the exposure
C21_Witness ==
    /\ WalletUnavailable
    /\ last.pre.wallets[last.user].isLocked
    /\ last.pre.wallets[last.user].balance >= LastExposure
    /\ last.err = "Wallet is locked or inactive"

----------------------------------------------------------------------------
(* The settlement results on their own (SpecResult) *)

\* an open bet as placeBet stores it
PlacedBet(marketId, marketType, selectionId, betType, odds, rate, lineValue, stake) ==
    NewBet("u1",
           PlacePayload(marketId, marketType, selectionId, selectionId, betType, odds, rate,
                        lineValue, stake),
           calculateExposure(marketType, betType, stake, odds, rate).value)

\* stakes are 100, lines 1.605
FinalValues == {1600, 1605, 1655}

MatchOddsCases ==
    { [bet |-> PlacedBet("m1", MATCH_ODDS, s, t, o, 0, 0, 100000),
       args |-> SettleMatchOddsPayload(w)] :
        s \in {"s1", "s2"}, t \in {"back", "lay"}, o \in {150, 470}, w \in {"s1", "s2"} }

FancyCases ==
    { [bet |-> PlacedBet("m2", BOOKMAKERS_FANCY, "f1", t, 95, 95, 0, 100000),
       args |-> SettleFancyPayload(rm)] :
        t \in {"yes", "no"},
        rm \in {NoResultMap, [x \in {"f1"} |-> "yes"], [x \in {"f1"} |-> "no"]} }

LineCases ==
    { [bet |-> PlacedBet("m3", LINE_MARKET, "l1", t, 0, 0, 1605, 100000),
       args |-> SettleLinePayload(v)] :
        t \in {"over", "under"}, v \in FinalValues }

MeterCases ==
    { [bet |-> PlacedBet("m4", METER_MARKET, "l1", t, 0, 0, 1605, 100000),
       args |-> [marketType |-> METER_MARKET, marketId |-> "m4", eventId |-> "e1",
                 finalValue |-> v]] :
        t \in {"over", "under"}, v \in FinalValues }

\* isWinForYes is FALSE when the request does not carry it
KadoCases ==
    { [bet |-> PlacedBet("m5", KADO_MARKET, s, t, 0, r, 0, 100000),
       args |-> [marketType |-> KADO_MARKET, marketId |-> "m5", eventId |-> "e1",
                 winnerSelectionId |-> w, isWinForYes |-> y]] :
        s \in {"s1", "s2"}, t \in {"back", "lay", "yes", "no"}, r \in {0, 3},
        w \in {"s1", "s2"}, y \in BOOLEAN }

ResultCases == MatchOddsCases \cup FancyCases \cup LineCases \cup MeterCases \cup KadoCases

InitResult ==
    /\ wallets \in InitialWallets
    /\ ledger = <<>>
    /\ bets = <<>>
    /\ applied = <<>>
    /\ eventDataCache = [s \in {"cricket"} |-> <<>>]
    /\ transactionSupported = "null"
    /\ transactionCheckLogged = FALSE
    /\ notices = 0
    /\ procs = <<>>
    /\ calls = 0
    /\ \E c \in ResultCases :
          last = [kind |-> "case", bet |-> c.bet, args |-> c.args, result |-> NoResult]

\* the helper selected by settleMarket computes the result of the drawn bet
ComputeResult ==
    /\ last.kind = "case"
    /\ last' = [last EXCEPT !.kind = "result", !.result = BetResult(last.bet, last.args)]
    /\ UNCHANGED <<wallets, ledger, bets, applied, eventDataCache, transactionSupported, transactionCheckLogged, notices,
                   procs, calls>>

NextResult == ComputeResult

SpecResult == InitResult /\ [][NextResult]_vars

Won(net) == last.result = [netWinAmount |-> net, settlementResult |-> "won"]

Lost == last.result = [netWinAmount |-> -last.bet.exposure, settlementResult |-> "lost"]

ResultOf(marketType) == last.kind = "result" /\ last.bet.marketType = marketType

\* C22: a fixed-odds back bet is won with net stake x (odds - 1) iff its selection is the
\* winner, a lay bet is won with net stake iff its selection is not the winner, and the
\* bet is lost with net -exposure otherwise
C22_MatchOddsResults ==
    ResultOf(MATCH_ODDS) =>
        LET isWinner == last.bet.selectionId = last.args.winnerSelectionId
        IN IF last.bet.betType = "back" /\ isWinner
           THEN last.result.settlementResult = "won"
                /\ last.result.netWinAmount * 100 = last.bet.stake * (last.bet.odds - 100)
           ELSE IF last.bet.betType = "lay" /\ ~isWinner THEN Won(last.bet.stake)
           ELSE Lost

\* back, stake 100 at odds 4.70, selection wins: net +370, won
C22_Witness ==
    /\ ResultOf(MATCH_ODDS)
    /\ last.bet.betType = "back" /\ last.bet.odds = 470 /\ last.bet.stake = 100000
    /\ last.result = [netWinAmount |-> 370000, settlementResult |-> "won"]

\* C23: with an outcome for the bet's selection, a yes bet is won with net stake x rate / 100
\* iff the outcome is yes, a no bet is won with net 0 iff the outcome is no, and the bet
\* is lost with net -exposure otherwise
C23_SessionResults ==
    (ResultOf(BOOKMAKERS_FANCY) /\ last.bet.selectionId \in DOMAIN last.args.resultMap) =>
        LET outcome == last.args.resultMap[last.bet.selectionId]
        IN IF last.bet.betType = "yes" /\ outcome = "yes"
           THEN last.result.settlementResult = "won"
                /\ last.result.netWinAmount * 100 = last.bet.stake * last.bet.rate
           ELSE IF last.bet.betType = "no" /\ outcome = "no" THEN Won(0)
           ELSE Lost

\* yes, stake 100 at rate 95, outcome no: net -100, lost
C23_Witness ==
    /\ ResultOf(BOOKMAKERS_FANCY)
    /\ last.bet.betType = "yes" /\ last.bet.rate = 95 /\ last.bet.stake = 100000
    /\ last.args.resultMap = [x \in {"f1"} |-> "no"]
    /\ last.result = [netWinAmount |-> -100000, settlementResult |-> "lost"]

\* C24: an over bet on line L is won with net stake iff V > L, an under bet iff V < L;
\* at V = L both are lost with net -exposure
C24_LineResults ==
    ResultOf(LINE_MARKET) =>
        LET V == last.args.finalValue
            L == last.bet.lineValue
        IN /\ IF \/ last.bet.betType = "over" /\ V > L
                 \/ last.bet.betType = "under" /\ V < L
              THEN Won(last.bet.stake)
              ELSE Lost
           /\ V = L => Lost

\* the final value equals the line and the bet is lost
C24_Witness ==
    /\ ResultOf(LINE_MARKET)
    /\ last.args.finalValue = last.bet.lineValue
    /\ last.bet.betType = "under"
    /\ last.result = [netWinAmount |-> -last.bet.exposure, settlementResult |-> "lost"]

\* C25: an over bet on meter line L is won with net stake iff V >= L and an under bet iff
\* V < L, so exactly one of the two sides wins; the loser gets net -exposure
C25_MeterResults ==
    ResultOf(METER_MARKET) =>
        LET V == last.args.finalValue
            L == last.bet.lineValue
        IN IF \/ last.bet.betType = "over" /\ V >= L
              \/ last.bet.betType = "under" /\ V < L
           THEN Won(last.bet.stake)
           ELSE Lost

\* C26: a kado bet is won with net stake x (m - 1), m defaulting to 2, iff its side matches
\* the outcome given as winnerSelectionId (back on the winner, lay on a loser), and lost
\* with net -exposure otherwise
C26_KadoResults ==
    (ResultOf(KADO_MARKET) /\ last.bet.betType \in {"back", "lay"}) =>
        LET isWinner == last.bet.selectionId = last.args.winnerSelectionId
            m == IF last.bet.rate # 0 THEN last.bet.rate ELSE 2
        IN IF \/ last.bet.betType = "back" /\ isWinner
              \/ last.bet.betType = "lay" /\ ~isWinner
           THEN Won(last.bet.stake * (m - 1))
           ELSE Lost

----------------------------------------------------------------------------
(* Properties of the stored bets, checked under Spec *)

\* C27: every stored bet has exposure > 0, and its settlementResult is set iff its
\* status is settled
C27_BetRecordConsistent ==
    \A i \in DOMAIN bets :
        /\ bets[i].exposure > 0
        /\ bets[i].settlementResult # "null" <=> bets[i].status = "settled"

\* an open bet and a settled one side by side
C27_Witness ==
    \E i, j \in DOMAIN bets :
        /\ bets[i].status = "settled" /\ bets[i].settlementResult \in {"won", "lost"}
        /\ bets[j].status = "open" /\ bets[j].settlementResult = "null"

\* C28: bets are created open and never deleted; the only status change is open -> settled;
\* a settled bet is never changed again and no later call applies a wallet effect for it
C28_BetLifecycle ==
    [][/\ Len(bets') >= Len(bets)
       /\ \A i \in DOMAIN bets :
             /\ bets[i].status = "settled" => (bets'[i] = bets[i] /\ applied'[i] = applied[i])
             /\ bets'[i].status # bets[i].status =>
                    (bets[i].status = "open" /\ bets'[i].status = "settled")
       /\ \A i \in DOMAIN bets' \ DOMAIN bets : bets'[i].status = "open"]_vars

\* a successful settleMarket on the market of a bet that was settled before the call
C28_Witness ==
    /\ last.kind = "settle" /\ last.err = ErrNone
    /\ \E i \in DOMAIN last.pre.bets :
          /\ last.pre.bets[i].status = "settled"
          /\ last.pre.bets[i].marketId = last.args.marketId
          /\ last.pre.bets[i].marketType = last.args.marketType
          /\ bets[i] = last.pre.bets[i]
          /\ applied[i] = 1

----------------------------------------------------------------------------
(* Lock / release cycles of one wallet pair (SpecRoundTrip) *)

\* session bets of one, one and a half and two fifths of a minor unit
RoundTripPlacements == {FancyYes10, [FancyYes10 EXCEPT !.stake = 15], [FancyYes10 EXCEPT !.stake = 4]}

InitRoundTrip ==
    /\ wallets \in InitialWallets
    /\ ledger = <<>>
    /\ bets = <<>>
    /\ applied = <<>>
    /\ eventDataCache = LiveCache
    /\ transactionSupported = "null"
    /\ transactionCheckLogged = FALSE
    /\ notices = 0
    /\ procs = <<>>
    /\ last = NoCall
    /\ calls = 0

\* placeBet -> lockExposure
LockCycle(u, payload) ==
    /\ calls < MaxCalls
    /\ \E status \in ServerStatus : Call("place", u, payload, status)

\* settleMarket with no outcome for the selection -> settleExposure with netWinAmount 0
ReleaseCycle ==
    /\ calls < MaxCalls
    /\ \E status \in ServerStatus : Call("settle", "admin", SettleFancyPayload(NoResultMap), status)

NextRoundTrip ==
    \/ \E u \in Users, payload \in RoundTripPlacements : LockCycle(u, payload)
    \/ ReleaseCycle

SpecRoundTrip == InitRoundTrip /\ [][NextRoundTrip]_vars

HasOpenBet(u) == \E i \in DOMAIN bets : bets[i].userId = u /\ bets[i].status = "open"

ReleasedBets(u) == {i \in DOMAIN bets : bets[i].userId = u /\ bets[i].status = "settled"}

\* C29: once every exposure locked for a user has been released with a zero net result,
\* the wallet's available and locked balances are exactly those before the first lock,
\* however many lock / release cycles have run
C29_LockReleaseRoundTrip ==
    \A u \in Users :
        ~HasOpenBet(u) => \E w \in InitialWallets :
                              /\ wallets[u].balance = w[u].balance
                              /\ wallets[u].lockedBalance = w[u].lockedBalance

\* two cycles have completed for one user, one of them with a stake that is rounded
C29_Witness ==
    \E u \in Users :
        /\ ~HasOpenBet(u)
        /\ \E i, j \in ReleasedBets(u) : i # j /\ bets[i].stake = 15 /\ applied[i] = 1
        /\ last.kind = "settle" /\ last.err = ErrNone
        /\ last.pre.wallets[u].lockedBalance > 0

----------------------------------------------------------------------------
(* Ledger records against wallet changes, checked under Spec *)

\* the indices of the records the last call added for user u
NewRecords(u) == {k \in (Len(last.pre.ledger) + 1)..Len(ledger) : ledger[k].user = u}

BalanceChanged(u) ==
    \/ wallets[u].balance # last.pre.wallets[u].balance
    \/ wallets[u].lockedBalance # last.pre.wallets[u].lockedBalance

\* records due for the loaded bets from entry k on that the last call settled: one per
\* bet, two when its net result is non-zero; rounded tells whether the net result is
\* taken in minor units
RECURSIVE SettleRecords(_, _)
SettleRecords(k, rounded) ==
    IF k > Len(Loaded) THEN 0
    ELSE LET net == BetResult(Loaded[k].bet, last.args).netWinAmount
             nonZero == IF rounded THEN toInt(net) # 0 ELSE net # 0
         IN (IF bets[Loaded[k].id].status # "settled" THEN 0
             ELSE IF nonZero THEN 2 ELSE 1)
            + SettleRecords(k + 1, rounded)

RecordsDue(rounded) ==
    IF last.kind = "place" THEN 1
    ELSE IF last.args.marketType \in MARKET_TYPES THEN SettleRecords(1, rounded) ELSE 0

\* C30 as stated: a call changes a wallet's balances iff it adds ledger records for that
\* wallet, and a successful call adds one record for a lock, one per settlement with zero
\* net result and two per settlement with a non-zero net result
C30_LedgerAccompaniesBalance ==
    last.kind \in {"place", "settle"} =>
        /\ \A u \in Users : BalanceChanged(u) <=> NewRecords(u) # {}
        /\ last.err = ErrNone => Len(ledger) - Len(last.pre.ledger) = RecordsDue(FALSE)

\* C30 amended: for a call that succeeds or runs in a transaction, a changed wallet has
\* records, records whose wallet did not change have amounts below half a minor unit, a
\* successful call adds the records due with net results taken in minor units, and a
\* failed call in a transaction changes nothing
C30_LedgerAccompaniesBalanceAmended ==
    (last.kind \in {"place", "settle"} /\ (last.session \/ last.err = ErrNone)) =>
        /\ \A u \in Users :
              /\ BalanceChanged(u) => NewRecords(u) # {}
              /\ (NewRecords(u) # {} /\ ~BalanceChanged(u)) =>
                    \A k \in NewRecords(u) : toInt(ledger[k].amount) = 0
        /\ last.err = ErrNone => Len(ledger) - Len(last.pre.ledger) = RecordsDue(TRUE)
        /\ last.err # ErrNone => (StoreUnchanged /\ \A u \in Users : NewRecords(u) = {})

\* a settlement in a transaction that wrote two records for one bet
C30_Witness ==
    /\ last.kind = "settle" /\ last.session /\ last.err = ErrNone
    /\ Len(Loaded) = 1
    /\ Len(ledger) - Len(last.pre.ledger) = 2
    /\ BalanceChanged(Loaded[1].bet.userId)

----------------------------------------------------------------------------
(* The ledger as an audit trail, checked under Spec *)

\* the indices of the ledger records of user u
RecordsOf(u) == {k \in DOMAIN ledger : ledger[k].user = u}

\* balance-after is balance-before plus a credit's amount or minus a debit's, in minor units
RecordConsistent(tx) ==
    toInt(tx.balanceAfter) =
        toInt(tx.balanceBefore)
        + (IF tx.transactionType = "credit" THEN toInt(tx.amount) ELSE -toInt(tx.amount))

\* C31: every ledger record has balance-after = balance-before + amount (credit) or
\* - amount (debit), and the balance-after of a wallet's most recent record is the
\* wallet's available balance (amounts compared in minor units)
C31_LedgerRecordsConsistent ==
    /\ \A k \in DOMAIN ledger : RecordConsistent(ledger[k])
    /\ \A u \in Users :
          RecordsOf(u) # {} =>
              toInt(ledger[SetMax(RecordsOf(u))].balanceAfter) = toInt(wallets[u].balance)

\* C32: placement and settlement only append ledger records: every record that exists
\* stays where it is, unchanged
C32_LedgerAppendOnly ==
    [][/\ Len(ledger') >= Len(ledger)
       /\ \A k \in DOMAIN ledger : ledger'[k] = ledger[k]]_vars

\* a placement and a settlement each added records behind the records already there
C32_Witness ==
    /\ last.kind = "settle"
    /\ last.pre.ledger # <<>>
    /\ Len(ledger) > Len(last.pre.ledger)
    /\ \E k \in DOMAIN last.pre.ledger :
          ledger[k].type = "bet_exposure_lock" /\ k > 1

----------------------------------------------------------------------------
(* withTransaction on a standalone server, first calls overlapping (SpecSupport) *)

\* what admin.serverStatus() gives on a server without a replica set: a status without
\* repl, or an exception
StandaloneStatus == {"standalone", "throws"}

SupportRequests == {<<"place", "u1", BackA10>>, <<"settle", "admin", SettleMatchOddsPayload("s1")>>}

InitSupport ==
    /\ wallets = FreshDb.wallets
    /\ ledger = <<>>
    /\ bets = <<>>
    /\ applied = <<>>
    /\ eventDataCache = LiveCache
    /\ transactionSupported = "null"
    /\ transactionCheckLogged = FALSE
    /\ notices = 0
    /\ procs = [i \in Slots |-> Idle]
    /\ last = NoCall
    /\ calls = 0

\* a request enters withTransaction in a free slot
StartRequest(i, rq) ==
    /\ procs[i].pc \in {"idle", "done"}
    /\ calls < MaxCalls
    /\ rq[1] = "place" =>
          Len(bets) + Cardinality({j \in Slots : InFlight(procs[j]) /\ procs[j].kind = "place"})
              < MaxBets
    /\ procs' = [procs EXCEPT ![i] = NewProc(rq[1], rq[2], rq[3])]
    /\ calls' = calls + 1
    /\ UNCHANGED <<wallets, ledger, bets, applied, eventDataCache, transactionSupported,
                   transactionCheckLogged, notices, last>>

\* checkTransactionSupport 10-16: a cached decision is returned, else the server is asked
CheckRead(i) ==
    /\ procs[i].pc = "check"
    /\ procs' = [procs EXCEPT ![i] = IF transactionSupported # "null"
                                     THEN Begin(@, transactionSupported)
                                     ELSE [@ EXCEPT !.pc = "status"]]
    /\ UNCHANGED <<wallets, ledger, bets, applied, eventDataCache, transactionSupported,
                   transactionCheckLogged, notices, last, calls>>

\* checkTransactionSupport 16-41 after the await: the decision is stored and logged once,
\* then withTransaction 52-70 starts fn
CheckResume(i, status) ==
    /\ procs[i].pc = "status"
    /\ LET supported == checkTransactionSupport("null", status)
       IN /\ transactionSupported' = supported
          /\ procs' = [procs EXCEPT ![i] = Begin(@, supported)]
    /\ transactionCheckLogged' = checkLogged("null", transactionCheckLogged)
    /\ notices' = NoticesAfter("null", transactionCheckLogged, notices, status)
    /\ UNCHANGED <<wallets, ledger, bets, applied, eventDataCache, last, calls>>

\* one awaited step of fn
StepBody(i) == procs[i].pc # "status" /\ StepCall(i)

NextSupport ==
    \/ \E i \in Slots, rq \in SupportRequests : StartRequest(i, rq)
    \/ \E i \in Slots : CheckRead(i)
    \/ \E i \in Slots, status \in StandaloneStatus : CheckResume(i, status)
    \/ \E i \in Slots : StepBody(i)

SpecSupport == InitSupport /\ [][NextSupport]_vars

\* the calls that have left checkTransactionSupport
PastCheck == {i \in Slots : procs[i].pc \notin {"idle", "check", "status"}}

\* C33: on a server without transactions every call runs its body once and without a
\* session, the decision of the first check is the decision of every later call, and the
\* standalone-mode notice is logged exactly once, also when the first calls overlap
C33_StandaloneFallback ==
    /\ [](/\ \A i \in PastCheck : ~procs[i].session
          /\ notices = (IF transactionSupported = "null" THEN 0 ELSE 1))
    /\ [][/\ transactionSupported # "null" => transactionSupported' = transactionSupported
          /\ \A i \in Slots :
                /\ (procs'[i].pc = "begin" /\ procs[i].pc # "begin") =>
                       procs[i].pc \in {"check", "status"}
                /\ (procs[i].kind = "place" /\ InFlight(procs[i]) /\ procs'[i].pc = "done"
                    /\ procs'[i].err = ErrNone) => Len(bets') = Len(bets) + 1]_vars

\* two first calls overlapped: one has stored its decision and logged the notice while
\* the other, which read no decision, is still waiting for the server's answer
C33_Witness ==
    /\ notices = 1 /\ transactionCheckLogged
    /\ \E i \in Slots : procs[i].pc = "status" /\ 3 - i \in PastCheck

----------------------------------------------------------------------------
(* A placement overlapping a settlement of the same user (SpecConc) *)

\* slot i holds a placement and the other slot a settlement that found an open bet of the
\* placing user; the two calls overlapped, neither was interrupted, both have returned
PlacedDuringSettle(i) ==
    /\ procs[i].kind = "place" /\ procs[3 - i].kind = "settle"
    /\ \A j \in Slots : /\ procs[j].startedAfter = {}
                        /\ procs[j].err # "crashed"
                        /\ procs[j].pc = "done"
    /\ \E b \in DOMAIN last.pre.bets :
          /\ last.pre.bets[b].userId = procs[i].user
          /\ last.pre.bets[b].status = "open"
          /\ InMarket(last.pre.bets[b], procs[3 - i].args)

\* sums, in paise, over the bets of user u from index k on that are now settled: their
\* exposures, and their net results under the settlement arguments
RECURSIVE SettledExposure(_, _)
SettledExposure(u, k) ==
    IF k > Len(bets) THEN 0
    ELSE (IF bets[k].userId = u /\ bets[k].status = "settled" THEN toInt(bets[k].exposure) ELSE 0)
         + SettledExposure(u, k + 1)

RECURSIVE SettledNet(_, _, _)
SettledNet(u, args, k) ==
    IF k > Len(bets) THEN 0
    ELSE (IF bets[k].userId = u /\ bets[k].status = "settled"
          THEN toInt(BetResult(bets[k], args).netWinAmount) ELSE 0)
         + SettledNet(u, args, k + 1)

\* C34: after a placement of a user overlapped a settlement of another bet of that user,
\* the wallet holds both updates once each: the exposure of the created bet moved to
\* locked, the exposures of the settled bets released and their net results applied
C34_PlaceDuringSettle ==
    \A i \in Slots :
        PlacedDuringSettle(i) =>
            LET u == procs[i].user
                before == last.pre.wallets[u]
                created == CreatedExposure(bets, u, Len(last.pre.bets) + 1)
                released == SettledExposure(u, 1)
                net == SettledNet(u, procs[3 - i].args, 1)
            IN /\ toInt(wallets[u].balance) = toInt(before.balance) - created + released + net
               /\ toInt(wallets[u].lockedBalance) =
                      toInt(before.lockedBalance) + created - released

----------------------------------------------------------------------------
(* The variant with order matching: bet.service.js 823-1453, models/Bet.js 174-397,   *)
(* the wallet with availableBalance. Every call runs in one transaction, so a call    *)
(* that throws leaves the store as it was (SpecMatch).                                *)

MatchingWallet(available, locked) ==
    [balance |-> available + locked, availableBalance |-> available, lockedBalance |-> locked,
     isActive |-> TRUE, isLocked |-> FALSE]

\* stake x (odds - 1), odds in hundredths
Liability(amount, odds) == (amount * (odds - 100)) \div 100

\* what a lay order reserves or frees for an amount of stake: stake + liability
Reserved(type, amount, odds) == IF type = "lay" THEN amount + Liability(amount, odds) ELSE amount

\* betSchema.methods.updateStatus
updateStatus(bet) ==
    IF bet.unmatchedAmount = 0 /\ bet.matchedAmount > 0 THEN [bet EXCEPT !.status = "matched"]
    ELSE IF bet.matchedAmount > 0 /\ bet.unmatchedAmount > 0
    THEN [bet EXCEPT !.status = "partially_matched"]
    ELSE IF bet.matchedAmount = 0 /\ bet.unmatchedAmount > 0 THEN [bet EXCEPT !.status = "pending"]
    ELSE bet

\* betSchema.methods.canMatchWith
canMatchWith(bet, otherBet) ==
    /\ bet.userId # otherBet.userId
    /\ bet.type # otherBet.type
    /\ bet.marketId = otherBet.marketId /\ bet.sectionId = otherBet.sectionId
    /\ bet.status \in {"pending", "partially_matched"}
    /\ otherBet.status \in {"pending", "partially_matched"}
    /\ IF bet.type = "back" THEN otherBet.odds <= bet.odds ELSE otherBet.odds >= bet.odds

\* the wallet validators run by save: no balance below 0
MatchingWalletValid(w) == w.balance >= 0 /\ w.availableBalance >= 0 /\ w.lockedBalance >= 0

\* unlockMatchedBalance 1060-1078
unlockMatchedBalance(db, userId, betType, matchedAmount, matchOdds) ==
    LET unlockAmount == Reserved(betType, matchedAmount, matchOdds)
        w == db.wallets[userId]
        w2 == [w EXCEPT !.lockedBalance = @ - unlockAmount,
                        !.availableBalance = @ + unlockAmount]
    IN [db EXCEPT !.wallets[userId] = w2]

\* createMatchTransaction 1083-1112
createMatchTransaction(db, userId) ==
    [db EXCEPT !.ledger = Append(@, LedgerTx(userId, "bet_matched", 0, db.wallets[userId].balance,
                                             db.wallets[userId].balance, "match"))]

\* the query of matchBet 974-995: the ids of the opposite orders that can be matched
AvailableBets(db, id) ==
    LET bet == db.bets[id]
    IN {k \in DOMAIN db.bets :
          /\ db.bets[k].type = (IF bet.type = "back" THEN "lay" ELSE "back")
          /\ db.bets[k].marketId = bet.marketId /\ db.bets[k].sectionId = bet.sectionId
          /\ db.bets[k].status \in {"pending", "partially_matched"}
          /\ db.bets[k].userId # bet.userId
          /\ db.bets[k].unmatchedAmount > 0
          /\ IF bet.type = "back" THEN db.bets[k].odds <= bet.odds
             ELSE db.bets[k].odds >= bet.odds}

\* .sort({odds, createdAt}) 993-995: the first of the remaining candidates
FirstAvailable(db, id, S) ==
    CHOOSE k \in S :
        \A j \in S \ {k} :
            IF db.bets[id].type = "back"
            THEN db.bets[k].odds < db.bets[j].odds \/ (db.bets[k].odds = db.bets[j].odds /\ k < j)
            ELSE db.bets[k].odds > db.bets[j].odds \/ (db.bets[k].odds = db.bets[j].odds /\ k < j)

\* the loop of matchBet 1002-1052 over the candidates S, in sorted order
RECURSIVE matchLoop(_, _, _)
matchLoop(db, id, S) ==
    IF S = {} \/ db.bets[id].unmatchedAmount <= 0 THEN db
    ELSE LET k == FirstAvailable(db, id, S)
             bet == db.bets[id]
             availableBet == db.bets[k]
             matchAmount == IF bet.unmatchedAmount <= availableBet.unmatchedAmount
                            THEN bet.unmatchedAmount ELSE availableBet.unmatchedAmount
             matchOdds == IF bet.type = "back" THEN availableBet.odds ELSE bet.odds
             bet2 == updateStatus([bet EXCEPT !.matchedAmount = @ + matchAmount,
                                              !.unmatchedAmount = @ - matchAmount])
             availableBet2 == updateStatus([availableBet EXCEPT !.matchedAmount = @ + matchAmount,
                                                                !.unmatchedAmount = @ - matchAmount])
             d1 == unlockMatchedBalance(db, bet.userId, bet.type, matchAmount, matchOdds)
             d2 == unlockMatchedBalance(d1, availableBet.userId, availableBet.type, matchAmount,
                                        matchOdds)
             d3 == createMatchTransaction(createMatchTransaction(d2, bet.userId),
                                          availableBet.userId)
             d4 == [d3 EXCEPT !.bets[id] = bet2, !.bets[k] = availableBet2]
         IN IF ~canMatchWith(bet, availableBet) THEN matchLoop(db, id, S \ {k})
            ELSE matchLoop(d4, id, S \ {k})

\* matchBet 962-1055
matchBet(db, id) ==
    IF db.bets[id].status \in {"matched", "settled", "cancelled"} THEN db
    ELSE matchLoop(db, id, AvailableBets(db, id))

\* a call's outcome: the store it leaves and its error
Outcome(db, err) == [db |-> db, err |-> err]

\* every wallet of the store passes its validators
WalletsValid(db) == \A u \in DOMAIN db.wallets : MatchingWalletValid(db.wallets[u])

\* placeBet 831-957 of the matching variant
MatchingPlaceBet(db, userId, betData) ==
    LET wallet == db.wallets[userId]
        requiredAmount == Reserved(betData.type, betData.stake, betData.odds)
        w2 == [wallet EXCEPT !.availableBalance = @ - requiredAmount,
                             !.lockedBalance = @ + requiredAmount]
        bet == [userId |-> userId, eventId |-> betData.eventId, marketId |-> betData.marketId,
                sectionId |-> betData.sectionId, type |-> betData.type, odds |-> betData.odds,
                stake |-> betData.stake, status |-> "pending", matchedAmount |-> 0,
                unmatchedAmount |-> betData.stake, settlementResult |-> "null"]
        d1 == [db EXCEPT !.wallets[userId] = w2,
                         !.bets = Append(@, bet),
                         !.ledger = Append(@, LedgerTx(userId, "bet_placed", -requiredAmount,
                                                       wallet.balance, wallet.balance, "place"))]
        d2 == matchBet(d1, Len(d1.bets))
    IN IF betData.type \notin {"back", "lay"}
       THEN Outcome(db, "Invalid bet type. Must be \"back\" or \"lay\"")
       ELSE IF betData.odds < 101 \/ betData.odds > 100000
       THEN Outcome(db, "Odds must be between 1.01 and 1000")
       ELSE IF betData.stake <= 0 THEN Outcome(db, "Stake must be greater than 0")
       ELSE IF ~isAvailable(wallet) THEN Outcome(db, "Wallet is locked or inactive")
       ELSE IF wallet.availableBalance < requiredAmount
       THEN Outcome(db, "Insufficient available balance")
       ELSE IF betData.stake < 10 \/ ~WalletsValid(d2) THEN Outcome(db, ErrValidation)
       ELSE Outcome(d2, ErrNone)

\* cancelBet 1117-1203
cancelBet(db, userId, betId) ==
    IF betId \notin DOMAIN db.bets THEN Outcome(db, "Bet not found")
    ELSE LET bet == db.bets[betId]
             wallet == db.wallets[userId]
             unlockAmount == Reserved(bet.type, bet.unmatchedAmount, bet.odds)
             w2 == [wallet EXCEPT !.lockedBalance = @ - unlockAmount,
                                  !.availableBalance = @ + unlockAmount]
             d1 == [db EXCEPT !.wallets[userId] = w2,
                              !.bets[betId].status = "cancelled",
                              !.bets[betId].unmatchedAmount = 0,
                              !.ledger = Append(@, LedgerTx(userId, "bet_cancelled", unlockAmount,
                                                            wallet.balance, wallet.balance,
                                                            "cancel"))]
         IN IF bet.userId # userId THEN Outcome(db, "You can only cancel your own bets")
            ELSE IF bet.status = "settled" THEN Outcome(db, "Cannot cancel settled bet")
            ELSE IF bet.status = "cancelled" THEN Outcome(db, "Bet is already cancelled")
            ELSE IF bet.unmatchedAmount = 0 THEN Outcome(db, "Cannot cancel fully matched bet")
            ELSE IF ~MatchingWalletValid(w2) THEN Outcome(db, ErrValidation)
            ELSE Outcome(d1, ErrNone)

\* settleEvent 1228-1351 for one loaded bet: the wallet effect, the record and the bet
settleOne(db, k, winningSectionId) ==
    LET bet == db.bets[k]
        wallet == db.wallets[bet.userId]
        isWinner == bet.sectionId = winningSectionId
        delta == IF bet.type = "back"
                 THEN (IF isWinner THEN Liability(bet.matchedAmount, bet.odds) ELSE 0)
                 ELSE (IF ~isWinner THEN bet.matchedAmount
                       ELSE -Liability(bet.matchedAmount, bet.odds))
        amount == IF bet.type = "back" /\ ~isWinner THEN -bet.matchedAmount ELSE delta
        won == IF bet.type = "back" THEN isWinner ELSE ~isWinner
        w2 == [wallet EXCEPT !.availableBalance = @ + delta, !.balance = @ + delta]
    IN [db EXCEPT !.wallets[bet.userId] = w2,
                  !.ledger = Append(@, LedgerTx(bet.userId, "bet_settled", amount, wallet.balance,
                                                w2.balance, "settle")),
                  !.bets[k].status = "settled",
                  !.bets[k].settlementResult = IF won THEN "win" ELSE "lose"]

\* the loop of settleEvent 1225-1357: a save rejected by a validator ends the call
RECURSIVE settleLoop(_, _, _)
settleLoop(db, S, winningSectionId) ==
    IF S = {} THEN Outcome(db, ErrNone)
    ELSE LET k == SetMin(S)
             d == settleOne(db, k, winningSectionId)
         IN IF ~WalletsValid(d) THEN Outcome(d, ErrValidation)
            ELSE settleLoop(d, S \ {k}, winningSectionId)

\* settleEvent 1208-1371
settleEvent(db, eventId, winningSectionId) ==
    LET found == {k \in DOMAIN db.bets : /\ db.bets[k].eventId = eventId
                                         /\ db.bets[k].status \in {"matched", "partially_matched"}}
        r == settleLoop(db, found, winningSectionId)
    IN IF r.err # ErrNone THEN Outcome(db, r.err) ELSE r

BetData(type, odds, stake) ==
    [eventId |-> "e1", marketId |-> "m1", sectionId |-> "s1", type |-> type, odds |-> odds,
     stake |-> stake]

\* orders of 0.01 and 0.02 at 2.00 and 3.00
MatchingOrders == {BetData(t, o, st) : t \in {"back", "lay"}, o \in {200, 300}, st \in {10, 20}}

InitMatch ==
    /\ wallets = [u \in Users |-> MatchingWallet(60, 0)]
    /\ ledger = <<>>
    /\ bets = <<>>
    /\ applied = <<>>
    /\ eventDataCache = [s \in {"cricket"} |-> <<>>]
    /\ transactionSupported = "true"
    /\ transactionCheckLogged = TRUE
    /\ notices = 0
    /\ procs = <<>>
    /\ last = NoCall
    /\ calls = 0

\* one call of the matching variant, committed or rolled back as a whole
MatchingCall(kind, user, args, r) ==
    /\ calls < MaxCalls
    /\ wallets' = r.db.wallets /\ ledger' = r.db.ledger /\ bets' = r.db.bets
    /\ last' = [kind |-> kind, user |-> user, args |-> args, err |-> r.err, session |-> TRUE,
                pre |-> Db, cache |-> eventDataCache]
    /\ calls' = calls + 1
    /\ UNCHANGED <<applied, eventDataCache, transactionSupported, transactionCheckLogged,
                   notices, procs>>

PlaceOrder(u, betData) ==
    /\ Len(bets) < MaxBets
    /\ MatchingCall("place", u, betData, MatchingPlaceBet(Db, u, betData))

CancelBet(u, betId) == MatchingCall("cancel", u, betId, cancelBet(Db, u, betId))

SettleEvent(winningSectionId) ==
    MatchingCall("settle", "admin", winningSectionId, settleEvent(Db, "e1", winningSectionId))

NextMatch ==
    \/ \E u \in Users, betData \in MatchingOrders : PlaceOrder(u, betData)
    \/ \E u \in Users, betId \in 1..MaxBets : CancelBet(u, betId)
    \/ \E w \in {"s1", "s2"} : SettleEvent(w)

SpecMatch == InitMatch /\ [][NextMatch]_vars

\* the bet a cancelBet call addressed, as it was before the call
CancelledBefore == last.pre.bets[last.args]

\* C35: cancelBet moves a bet to cancelled only while none of its stake is matched; a bet
\* that is partially matched, matched, settled or already cancelled is never moved to
\* cancelled and its wallet is not changed by the attempt
C35_CancelOnlyUnmatched ==
    (last.kind = "cancel" /\ last.args \in DOMAIN last.pre.bets) =>
        /\ (bets[last.args].status = "cancelled" /\ CancelledBefore.status # "cancelled") =>
               CancelledBefore.matchedAmount = 0
        /\ CancelledBefore.status \in {"partially_matched", "matched", "settled", "cancelled"} =>
               /\ bets[last.args] = CancelledBefore
               /\ wallets = last.pre.wallets

----------------------------------------------------------------------------
(* Placements against ladders of several rows, by id and by name (SpecSelection) *)

LadderFancyDeep == <<Price("back", 90), Price("back", 85), Price("lay", 100), Price("lay", 105)>>

\* a snapshot whose session market quotes two rows a side
MarketsDeep ==
    << Market("m1", "OPEN", "MATCH_ODDS",
              <<Section("s1", "A", "ACTIVE", LadderA), Section("s2", "B", "ACTIVE", LadderB)>>),
       Market("m2", "OPEN", "Fancy", <<Section("f1", "Runs", "", LadderFancyDeep)>>) >>

LayAWorse == PlacePayload("m1", MATCH_ODDS, "s1", "A", "lay", 310, 0, 0, 10)

FancyYesWorse == PlacePayload("m2", BOOKMAKERS_FANCY, "f1", "Runs", "yes", 85, 85, 0, 10)

FancyNo10 == PlacePayload("m2", BOOKMAKERS_FANCY, "f1", "Runs", "no", 100, 100, 0, 10)

FancyNoWorse == PlacePayload("m2", BOOKMAKERS_FANCY, "f1", "Runs", "no", 105, 105, 0, 10)

\* a selection id no section has, with the name of selection A
LayByName == PlacePayload("m1", MATCH_ODDS, "zz", "A", "lay", 300, 0, 0, 10)

FancyByName == PlacePayload("m2", BOOKMAKERS_FANCY, "zz", "Runs", "yes", 90, 90, 0, 10)

\* neither the id nor the name of a section
LayUnknown == PlacePayload("m1", MATCH_ODDS, "zz", "Z", "lay", 300, 0, 0, 10)

SelectionInputs ==
    {BackA10, BackAStale, LayA10, LayAWorse, FancyYes10, FancyYesWorse, FancyNo10, FancyNoWorse,
     LayByName, FancyByName, LayUnknown}

NextSelection ==
    \/ \E payload \in SelectionInputs : PlaceBet("u1", payload)
    \/ \E e \in EventIds, data \in {MarketsDeep, MarketsMoved} : FetchCricketEventData(e, data)

SpecSelection == Init /\ [][NextSelection]_vars

\* C36: a bet stored by a fixed-odds or session placement carries the sid of the section
\* that was validated for it, and a selectionId that no section of the market has is
\* never turned into a bet
C36_StoredSelectionIsValidated ==
    (PricedPlacement /\ last.err = ErrNone) =>
        /\ LastSectionIndex # 0
        /\ bets[Len(bets)].selectionId = LastSection.sid
        /\ \E k \in 1..Len(LastMarket.section) : LastMarket.section[k].sid = last.args.selectionId

\* the prices the validated section quotes for the requested side
SidePrices ==
    {LastSection.odds[i].odds :
        i \in {j \in 1..Len(LastSection.odds) : LastSection.odds[j].otype = RequestedSide}}

BestPrice == IF RequestedSide = "back" THEN SetMax(SidePrices) ELSE SetMin(SidePrices)

----------------------------------------------------------------------------
(* What a call leaves alone, checked under Spec *)

\* the owners of the open bets the last settleMarket call addressed
SettledOwners ==
    {last.pre.bets[i].userId :
        i \in {j \in DOMAIN last.pre.bets : /\ InMarket(last.pre.bets[j], last.args)
                                            /\ last.pre.bets[j].status = "open"}}

\* user u's wallet and ledger records are as before the last call
Untouched(u) ==
    /\ wallets[u] = last.pre.wallets[u]
    /\ \A k \in (Len(last.pre.ledger) + 1)..Len(ledger) : ledger[k].user # u

----------------------------------------------------------------------------
(* Settlement of bets whose wallet was locked after placement (SpecFlags) *)

NextFlags ==
    \/ NextWallet
    \/ \E w \in {"s1", "s2"} : SettleMarket(SettleMatchOddsPayload(w))

SpecFlags == InitWallet /\ [][NextFlags]_vars

\* the store before the last call with every wallet active and unlocked
PreAvailable ==
    [last.pre EXCEPT !.wallets = [u \in Users |-> [last.pre.wallets[u] EXCEPT !.isActive = TRUE,
                                                                              !.isLocked = FALSE]]]

\* the last settleMarket call run on that store instead
SettledAvailable ==
    Run(PreAvailable,
        Begin(NewProc("settle", "admin", last.args), IF last.session THEN "true" ELSE "false"),
        last.cache)

====
